---- MODULE Spec2Model ----
(***************************************************************************)
(* The wire codec of the schema catalog (structured.pb.go): Size, Marshal  *)
(* and Unmarshal of ColumnType, ColumnDescriptor, IndexDescriptor,         *)
(* PrivilegeDescriptor, TableDescriptor and DatabaseDescriptor, and        *)
(* skipStructured, modelled at the level of bytes.                         *)
(*                                                                         *)
(* A byte is an integer in 0..255 and a buffer a sequence of bytes; Go's   *)
(* 0-based index iNdEx addresses data[iNdEx + 1] here.                     *)
(*                                                                         *)
(* A 64-bit machine word is a record [lo, mid, hi]: bits 0..27, bits       *)
(* 28..55 and bits 56..63, so that every limb is four 7-bit varint groups  *)
(* (hi: one group and one bit) and stays inside the model checker's        *)
(* integers.  An int32 field holds its sign-extended word (what            *)
(* uint64(m.Kind) is), an ID field its zero-extended word.  The type ID is *)
(* declared outside the files modelled here: every ID of a value or of an  *)
(* input below is under 2^14, where all integer widths from 16 bits on     *)
(* agree, and the accumulator keeps the bits it is given.                  *)
(***************************************************************************)
EXTENDS Integers, Sequences, FiniteSets, TLC

\* The errors Unmarshal and skipStructured return, and a run-time panic.
ErrNil == "nil"
ErrUnexpectedEOF == "io.ErrUnexpectedEOF"
ErrInvalidLengthStructured == "ErrInvalidLengthStructured"
ErrWrongWireType == "proto: wrong wireType"
ErrIllegalWireType == "proto: illegal wireType"
Panic == "panic"

----------------------------------------------------------------------------
\* Machine words.

Pow28 == 16384 * 16384

Zero64 == [lo |-> 0, mid |-> 0, hi |-> 0]

\* uint64(n) of a small non-negative int n (a len(), a small literal).
W(n) == [lo |-> n, mid |-> 0, hi |-> 0]

OfInt32_ZeroExtended(v) ==
  [lo |-> v % Pow28, mid |-> (v \div Pow28) % 16, hi |-> 0]

\* uint64(v) of an int32 v: the sign-extended bit pattern.
OfInt32(v) ==
  [lo |-> v % Pow28,
   mid |-> IF v < 0 THEN (Pow28 - 16) + ((v \div Pow28) % 16) ELSE v \div Pow28,
   hi |-> IF v < 0 THEN 255 ELSE 0]

\* int64 sign of a word.
IsNeg(w) == w.hi >= 128

\* w + k on 64 bits, wrapping, for a small non-negative int k.
AddSmall(w, k) ==
  LET s0 == w.lo + k
      c0 == s0 \div Pow28
      s1 == w.mid + c0
      c1 == s1 \div Pow28
  IN  [lo |-> s0 % Pow28, mid |-> s1 % Pow28, hi |-> (w.hi + c1) % 256]

\* int64(w) > l and int64(w) < l for a small non-negative int l.
GtSmall(w, l) == ~IsNeg(w) /\ (w.hi > 0 \/ w.mid > 0 \/ w.lo > l)
LtSmall(w, l) == IsNeg(w) \/ (w.hi = 0 /\ w.mid = 0 /\ w.lo < l)

----------------------------------------------------------------------------
\* Wire primitives.

\* x >> 7 on 64 bits.
Shr7(x) ==
  [lo |-> (x.lo \div 128) + 2097152 * (x.mid % 128),
   mid |-> (x.mid \div 128) + 2097152 * (x.hi % 128),
   hi |-> x.hi \div 128]

\* The number of bytes of the varint encoding of x: counts, shifting x
\* right by 7, until x is zero.
RECURSIVE sovStructured(_)
sovStructured(x) ==
  IF Shr7(x) = Zero64 THEN 1 ELSE 1 + sovStructured(Shr7(x))

\* An encoder that writes the most-significant group first.
RECURSIVE encodeVarintStructured_HighFirst(_)
encodeVarintStructured_HighFirst(v) ==
  IF v.hi > 0 \/ v.mid > 0 \/ v.lo >= 128
  THEN LET rest == encodeVarintStructured_HighFirst(Shr7(v))
       IN  [k \in DOMAIN rest |-> (rest[k] % 128) + 128] \o <<v.lo % 128>>
  ELSE <<v.lo>>

\* The bytes encodeVarintStructured writes for v from offset on: while
\* v >= 1<<7 the byte uint8(v&0x7f | 0x80), v shifted right by 7 after
\* each, and then the byte uint8(v).
RECURSIVE encodeVarintStructured(_)
encodeVarintStructured(v) ==
  IF v.hi > 0 \/ v.mid > 0 \/ v.lo >= 128
  THEN <<(v.lo % 128) + 128>> \o encodeVarintStructured(Shr7(v))
  ELSE <<v.lo>>

\* The varint loop `for shift := uint(0); ; shift += 7` of the decoders,
\* started at iNdEx: the 7-bit groups of the bytes read, the index after
\* them, and whether the buffer ended before a byte below 0x80.
RECURSIVE ReadVarint(_, _)

\* A varint loop that takes the end of the buffer for a final zero byte.
ReadVarint_ZeroAtEnd(data, iNdEx) ==
  IF iNdEx >= Len(data)
  THEN [eof |-> FALSE, g |-> <<0>>, i |-> iNdEx]
  ELSE LET b == data[iNdEx + 1]
       IN  IF b < 128
           THEN [eof |-> FALSE, g |-> <<b>>, i |-> iNdEx + 1]
           ELSE LET r == ReadVarint(data, iNdEx + 1)
                IN  [eof |-> r.eof, g |-> <<b % 128>> \o r.g, i |-> r.i]

ReadVarint(data, iNdEx) ==
  IF iNdEx >= Len(data)
  THEN [eof |-> TRUE, g |-> <<>>, i |-> iNdEx]
  ELSE LET b == data[iNdEx + 1]
       IN  IF b < 128
           THEN [eof |-> FALSE, g |-> <<b>>, i |-> iNdEx + 1]
           ELSE LET r == ReadVarint(data, iNdEx + 1)
                IN  [eof |-> r.eof, g |-> <<b % 128>> \o r.g, i |-> r.i]

GroupAt(g, k) == IF k <= Len(g) THEN g[k] ELSE 0

Low28(g) ==
  GroupAt(g, 1) + 128 * GroupAt(g, 2) + 16384 * GroupAt(g, 3)
    + 2097152 * GroupAt(g, 4)

\* The accumulator `x |= (uint64(b) & 0x7F) << shift` on 64 bits (also
\* int on a 64-bit build): the group at shift 63 keeps one bit, the groups
\* at shift 70 and above are shifted out.
AccU64(g) ==
  [lo |-> Low28(g),
   mid |-> GroupAt(g, 5) + 128 * GroupAt(g, 6) + 16384 * GroupAt(g, 7)
             + 2097152 * GroupAt(g, 8),
   hi |-> GroupAt(g, 9) + 128 * (GroupAt(g, 10) % 2)]

\* The same accumulator on an int32 field: the group at shift 28 keeps four
\* bits, the groups at shift 35 and above are shifted out; the result is
\* held sign-extended.
AccI32_Unsigned(g) ==
  [lo |-> Low28(g), mid |-> GroupAt(g, 5) % 16, hi |-> 0]

\* The numbers ColumnType_Kind_name names.
KnownKinds == {0, 1, 2, 3, 4, 5, 7, 8, 9, 10}

AccI32_KnownOnly(g) ==
  LET top == GroupAt(g, 5) % 16
      v == IF top >= 8
           THEN [lo |-> Low28(g), mid |-> (Pow28 - 16) + top, hi |-> 255]
           ELSE [lo |-> Low28(g), mid |-> top, hi |-> 0]
  IN  IF v \in {W(k) : k \in KnownKinds} THEN v ELSE Zero64

\* An accumulator that keeps all 64 bits.
AccI32_Wide(g) == AccU64(g)

AccI32(g) ==
  LET top == GroupAt(g, 5) % 16
  IN  IF top >= 8
      THEN [lo |-> Low28(g), mid |-> (Pow28 - 16) + top, hi |-> 255]
      ELSE [lo |-> Low28(g), mid |-> top, hi |-> 0]

\* The same accumulator on an ID field: m.ID |= (ID(b) & 0x7F) << shift.
AccID(g) == AccU64(g)

\* fieldNum := int32(wire >> 3), as an integer.
FieldNum(wire) ==
  LET top == wire.mid % 128
  IN  (wire.lo \div 8) + 33554432 * (IF top >= 64 THEN top - 128 ELSE top)

\* wireType := int(wire & 0x7).
WireType(wire) == wire.lo % 8

\* data[lo:hi] for 0 <= lo <= hi <= len(data).
Slice(data, lo, hi) == SubSeq(data, lo + 1, hi)

Ret(e, v) == [err |-> e, m |-> v]

\* skipStructured(data): the number of bytes of the one field that starts
\* data (an int, kept as a word), or an error.  SkipGroup is the loop of its
\* case 3, entered with iNdEx = start.
RECURSIVE skipStructured(_), SkipGroup(_, _)
skipStructured(data) ==
  LET l == Len(data)
      t == ReadVarint(data, 0)
      wireType == WireType(AccU64(t.g))
      iNdEx == t.i
  IN  IF l = 0 THEN [err |-> Panic, n |-> Zero64]
      ELSE IF t.eof THEN [err |-> ErrUnexpectedEOF, n |-> Zero64]
      ELSE CASE wireType = 0 ->
                  LET r == ReadVarint(data, iNdEx)
                  IN  IF r.eof THEN [err |-> ErrUnexpectedEOF, n |-> Zero64]
                      ELSE [err |-> ErrNil, n |-> W(r.i)]
             [] wireType = 1 -> [err |-> ErrNil, n |-> W(iNdEx + 8)]
             [] wireType = 2 ->
                  LET r == ReadVarint(data, iNdEx)
                      length == AccU64(r.g)
                  IN  IF r.eof THEN [err |-> ErrUnexpectedEOF, n |-> Zero64]
                      ELSE IF IsNeg(length)
                      THEN [err |-> ErrInvalidLengthStructured, n |-> Zero64]
                      ELSE [err |-> ErrNil, n |-> AddSmall(length, r.i)]
             [] wireType = 3 -> SkipGroup(data, iNdEx)
             [] wireType = 4 -> [err |-> ErrNil, n |-> W(iNdEx)]
             [] wireType = 5 -> [err |-> ErrNil, n |-> W(iNdEx + 4)]
             [] OTHER -> [err |-> ErrIllegalWireType, n |-> Zero64]

SkipGroup(data, start) ==
  LET l == Len(data)
      t == ReadVarint(data, start)
      innerWireType == WireType(AccU64(t.g))
  IN  IF t.eof THEN [err |-> ErrUnexpectedEOF, n |-> Zero64]
      ELSE IF innerWireType = 4 THEN [err |-> ErrNil, n |-> W(t.i)]
      ELSE LET s == skipStructured(Slice(data, start, l))
               iNdEx == AddSmall(s.n, start)
           IN  IF s.err # ErrNil THEN [err |-> s.err, n |-> Zero64]
               ELSE IF IsNeg(iNdEx) THEN [err |-> Panic, n |-> Zero64]
               ELSE IF ~LtSmall(iNdEx, l)
               THEN [err |-> ErrUnexpectedEOF, n |-> Zero64]
               ELSE SkipGroup(data, iNdEx.lo)

\* The default branch of every Unmarshal, entered with iNdEx after the tag
\* whose value is wire: steps back by sizeOfWire to `from`, skips one field
\* (skip is what skipStructured(data[from:]) returned) and yields the bytes
\* to append to XXX_unrecognized and the index after them.
Capture(data, from, skip) ==
  LET l == Len(data)
      upto == AddSmall(skip.n, from)
  IN  IF skip.err # ErrNil THEN [err |-> skip.err, cap |-> <<>>, i |-> from]
      ELSE IF IsNeg(skip.n)
      THEN [err |-> ErrInvalidLengthStructured, cap |-> <<>>, i |-> from]
      ELSE IF GtSmall(upto, l)
      THEN [err |-> ErrUnexpectedEOF, cap |-> <<>>, i |-> from]
      ELSE IF LtSmall(upto, from) THEN [err |-> Panic, cap |-> <<>>, i |-> from]
      ELSE [err |-> ErrNil, cap |-> Slice(data, from, upto.lo), i |-> upto.lo]

UnmarshalDefault(data, iNdEx, wire) ==
  LET sizeOfWire == sovStructured(wire)
      from == iNdEx - sizeOfWire
  IN  IF from < 0 THEN [err |-> Panic, cap |-> <<>>, i |-> iNdEx]
      ELSE Capture(data, from, skipStructured(Slice(data, from, Len(data))))

\* A string field after its tag: the length prefix, then
\* postIndex := iNdEx + int(stringLen), the check postIndex > l and the
\* slice data[iNdEx:postIndex], which panics when postIndex < iNdEx.
ReadString_NoBound(data, iNdEx) ==
  LET l == Len(data)
      r == ReadVarint(data, iNdEx)
      stringLen == AccU64(r.g)
      postIndex == AddSmall(stringLen, r.i)
  IN  IF r.eof THEN [err |-> ErrUnexpectedEOF, s |-> <<>>, i |-> r.i]
      ELSE IF GtSmall(postIndex, l)
      THEN [err |-> ErrNil, s |-> Slice(data, r.i, l), i |-> l]
      ELSE IF LtSmall(postIndex, r.i) THEN [err |-> Panic, s |-> <<>>, i |-> r.i]
      ELSE [err |-> ErrNil, s |-> Slice(data, r.i, postIndex.lo), i |-> postIndex.lo]

ReadString(data, iNdEx) ==
  LET l == Len(data)
      r == ReadVarint(data, iNdEx)
      stringLen == AccU64(r.g)
      postIndex == AddSmall(stringLen, r.i)
  IN  IF r.eof THEN [err |-> ErrUnexpectedEOF, s |-> <<>>, i |-> r.i]
      ELSE IF GtSmall(postIndex, l)
      THEN [err |-> ErrUnexpectedEOF, s |-> <<>>, i |-> r.i]
      ELSE IF LtSmall(postIndex, r.i) THEN [err |-> Panic, s |-> <<>>, i |-> r.i]
      ELSE [err |-> ErrNil, s |-> Slice(data, r.i, postIndex.lo), i |-> postIndex.lo]

\* A nested-message field after its tag: the length prefix msglen, then
\* postIndex := iNdEx + msglen, the checks msglen < 0 and postIndex > l and
\* the slice data[iNdEx:postIndex] handed to the nested Unmarshal.
ReadMsg(data, iNdEx) ==
  LET l == Len(data)
      r == ReadVarint(data, iNdEx)
      msglen == AccU64(r.g)
      postIndex == AddSmall(msglen, r.i)
  IN  IF r.eof THEN [err |-> ErrUnexpectedEOF, s |-> <<>>, i |-> r.i]
      ELSE IF IsNeg(msglen)
      THEN [err |-> ErrInvalidLengthStructured, s |-> <<>>, i |-> r.i]
      ELSE IF GtSmall(postIndex, l)
      THEN [err |-> ErrUnexpectedEOF, s |-> <<>>, i |-> r.i]
      ELSE IF LtSmall(postIndex, r.i) THEN [err |-> Panic, s |-> <<>>, i |-> r.i]
      ELSE [err |-> ErrNil, s |-> Slice(data, r.i, postIndex.lo), i |-> postIndex.lo]

NonZero_LowBit(g) == AccU64(g).lo % 2 = 1

\* A bool field after its tag: v != 0 of the int read.
NonZero(g) == AccU64(g) # Zero64

\* What one pass of an Unmarshal loop leaves: the error it returns with (or
\* nil), the receiver, and iNdEx.
Step(e, v, i) == [err |-> e, m |-> v, i |-> i]

\* A varint field assigned to while it is read (m.F = 0; m.F |= ...): v is
\* the varint read and mNew the receiver with the groups read so far.
VarintStep(v, mNew) ==
  Step(IF v.eof THEN ErrUnexpectedEOF ELSE ErrNil, mNew, v.i)

\* A varint field read into a local first (bool, repeated ID).
LocalVarintStep(m, v, mNew) ==
  IF v.eof THEN Step(ErrUnexpectedEOF, m, v.i) ELSE Step(ErrNil, mNew, v.i)

\* A string field: str is what ReadString returned.
StringStep(m, str, mNew) ==
  IF str.err # ErrNil THEN Step(str.err, m, str.i) ELSE Step(ErrNil, mNew, str.i)

\* The default branch: d is what UnmarshalDefault returned.
DefaultStep(m, d) ==
  IF d.err # ErrNil THEN Step(d.err, m, d.i)
  ELSE Step(ErrNil, [m EXCEPT !.XXX_unrecognized = @ \o d.cap], d.i)

----------------------------------------------------------------------------
\* ColumnType.

ColumnType_Zero == [Kind |-> Zero64, Width |-> Zero64, Precision |-> Zero64,
                    XXX_unrecognized |-> <<>>]

\* The switch on fieldNum, entered with iNdEx after the tag.
ColumnType_Case_FirstWins(m, data, iNdEx, wire) ==
  LET fieldNum == FieldNum(wire)
      wireType == WireType(wire)
      v == ReadVarint(data, iNdEx)
  IN  CASE fieldNum = 1 ->
             IF wireType # 0 THEN Step(ErrWrongWireType, m, iNdEx)
             ELSE VarintStep(v, [m EXCEPT !.Kind = AccI32(v.g)])
        [] fieldNum = 2 ->
             IF wireType # 0 THEN Step(ErrWrongWireType, m, iNdEx)
             ELSE VarintStep(v, IF m.Width # Zero64 THEN m
                                ELSE [m EXCEPT !.Width = AccI32(v.g)])
        [] fieldNum = 3 ->
             IF wireType # 0 THEN Step(ErrWrongWireType, m, iNdEx)
             ELSE VarintStep(v, [m EXCEPT !.Precision = AccI32(v.g)])
        [] OTHER -> DefaultStep(m, UnmarshalDefault(data, iNdEx, wire))

ColumnType_Case(m, data, iNdEx, wire) ==
  LET fieldNum == FieldNum(wire)
      wireType == WireType(wire)
      v == ReadVarint(data, iNdEx)
  IN  CASE fieldNum = 1 ->
             IF wireType # 0 THEN Step(ErrWrongWireType, m, iNdEx)
             ELSE VarintStep(v, [m EXCEPT !.Kind = AccI32(v.g)])
        [] fieldNum = 2 ->
             IF wireType # 0 THEN Step(ErrWrongWireType, m, iNdEx)
             ELSE VarintStep(v, [m EXCEPT !.Width = AccI32(v.g)])
        [] fieldNum = 3 ->
             IF wireType # 0 THEN Step(ErrWrongWireType, m, iNdEx)
             ELSE VarintStep(v, [m EXCEPT !.Precision = AccI32(v.g)])
        [] OTHER -> DefaultStep(m, UnmarshalDefault(data, iNdEx, wire))

\* One pass of the loop `for iNdEx < l`: t is the tag varint read.
ColumnType_Field(m, data, t) ==
  IF t.eof THEN Step(ErrUnexpectedEOF, m, t.i)
  ELSE ColumnType_Case(m, data, t.i, AccU64(t.g))

RECURSIVE ColumnType_Loop(_, _, _)
ColumnType_Continue(data, s) ==
  IF s.err # ErrNil THEN Ret(s.err, s.m) ELSE ColumnType_Loop(s.m, data, s.i)

ColumnType_Loop(m, data, iNdEx) ==
  IF iNdEx >= Len(data) THEN Ret(ErrNil, m)
  ELSE ColumnType_Continue(data, ColumnType_Field(m, data, ReadVarint(data, iNdEx)))

ColumnType_Unmarshal(m, data) == ColumnType_Loop(m, data, 0)

ColumnType_Size(m) ==
  (1 + sovStructured(m.Kind)) + (1 + sovStructured(m.Width))
    + (1 + sovStructured(m.Precision)) + Len(m.XXX_unrecognized)

\* The bytes MarshalTo writes, in the order it writes them.
ColumnType_MarshalTo(m) ==
  <<8>> \o encodeVarintStructured(m.Kind)
    \o <<16>> \o encodeVarintStructured(m.Width)
    \o <<24>> \o encodeVarintStructured(m.Precision)
    \o m.XXX_unrecognized

\* Marshal: MarshalTo into a buffer of `size` bytes; a write past the end of
\* the buffer panics, and the slice data[:n] is returned.
MarshalInto(size, written) ==
  IF Len(written) > size THEN [err |-> Panic, data |-> <<>>]
  ELSE [err |-> ErrNil, data |-> written]

ColumnType_Marshal(m) == MarshalInto(ColumnType_Size(m), ColumnType_MarshalTo(m))

----------------------------------------------------------------------------
\* ColumnDescriptor.

ColumnDescriptor_Zero == [Name |-> <<>>, ID |-> Zero64, Type |-> ColumnType_Zero,
                          Nullable |-> FALSE, XXX_unrecognized |-> <<>>]

\* case 3 after m.Type.Unmarshal(data[iNdEx:postIndex]) returned sub.
ColumnDescriptor_SetType(m, postIndex, sub) ==
  Step(sub.err, [m EXCEPT !.Type = sub.m], postIndex)

\* case 3 after the length prefix: msg is what ReadMsg returned.
ColumnDescriptor_Type(m, msg) ==
  IF msg.err # ErrNil THEN Step(msg.err, m, msg.i)
  ELSE ColumnDescriptor_SetType(m, msg.i, ColumnType_Unmarshal(m.Type, msg.s))

ColumnDescriptor_Case(m, data, iNdEx, wire) ==
  LET fieldNum == FieldNum(wire)
      wireType == WireType(wire)
      v == ReadVarint(data, iNdEx)
      str == ReadString(data, iNdEx)
  IN  CASE fieldNum = 1 ->
             IF wireType # 2 THEN Step(ErrWrongWireType, m, iNdEx)
             ELSE StringStep(m, str, [m EXCEPT !.Name = str.s])
        [] fieldNum = 2 ->
             IF wireType # 0 THEN Step(ErrWrongWireType, m, iNdEx)
             ELSE VarintStep(v, [m EXCEPT !.ID = AccID(v.g)])
        [] fieldNum = 3 ->
             IF wireType # 2 THEN Step(ErrWrongWireType, m, iNdEx)
             ELSE ColumnDescriptor_Type(m, ReadMsg(data, iNdEx))
        [] fieldNum = 4 ->
             IF wireType # 0 THEN Step(ErrWrongWireType, m, iNdEx)
             ELSE LocalVarintStep(m, v, [m EXCEPT !.Nullable = NonZero(v.g)])
        [] OTHER -> DefaultStep(m, UnmarshalDefault(data, iNdEx, wire))

ColumnDescriptor_Field(m, data, t) ==
  IF t.eof THEN Step(ErrUnexpectedEOF, m, t.i)
  ELSE ColumnDescriptor_Case(m, data, t.i, AccU64(t.g))

RECURSIVE ColumnDescriptor_Loop(_, _, _)
ColumnDescriptor_Continue(data, s) ==
  IF s.err # ErrNil THEN Ret(s.err, s.m) ELSE ColumnDescriptor_Loop(s.m, data, s.i)

ColumnDescriptor_Loop(m, data, iNdEx) ==
  IF iNdEx >= Len(data) THEN Ret(ErrNil, m)
  ELSE ColumnDescriptor_Continue(
         data, ColumnDescriptor_Field(m, data, ReadVarint(data, iNdEx)))

ColumnDescriptor_Unmarshal(m, data) == ColumnDescriptor_Loop(m, data, 0)

ColumnDescriptor_Size(m) ==
  (1 + Len(m.Name) + sovStructured(W(Len(m.Name))))
    + (1 + sovStructured(m.ID))
    + (1 + ColumnType_Size(m.Type) + sovStructured(W(ColumnType_Size(m.Type))))
    + 2 + Len(m.XXX_unrecognized)

ColumnDescriptor_MarshalTo(m) ==
  <<10>> \o encodeVarintStructured(W(Len(m.Name))) \o m.Name
    \o <<16>> \o encodeVarintStructured(m.ID)
    \o <<26>> \o encodeVarintStructured(W(ColumnType_Size(m.Type)))
    \o ColumnType_MarshalTo(m.Type)
    \o <<32>> \o (IF m.Nullable THEN <<1>> ELSE <<0>>)
    \o m.XXX_unrecognized

ColumnDescriptor_Marshal(m) ==
  MarshalInto(ColumnDescriptor_Size(m), ColumnDescriptor_MarshalTo(m))

----------------------------------------------------------------------------
\* Loops over repeated fields: the sum of the sizes of the elements and the
\* concatenation of what is written for each element, in order.

RECURSIVE SumOver(_), ConcatOver(_)
SumOver(ns) == IF ns = <<>> THEN 0 ELSE Head(ns) + SumOver(Tail(ns))
ConcatOver(bs) == IF bs = <<>> THEN <<>> ELSE Head(bs) \o ConcatOver(Tail(bs))

\* `l = len(s); n += 1 + l + sovStructured(uint64(l))` for one string.
StringFieldSize_OneByteLen(s) == 1 + Len(s) + 1

StringFieldSize(s) == 1 + Len(s) + sovStructured(W(Len(s)))

\* `l = e.Size(); n += 1 + l + sovStructured(uint64(l))` for one message.
MsgFieldSize(l) == 1 + l + sovStructured(W(l))

\* One string of a repeated field: tag, length, bytes.
StringField_VarintTag(tag, s) ==
  <<tag - 2>> \o encodeVarintStructured(W(Len(s))) \o s

StringField(tag, s) == <<tag>> \o encodeVarintStructured(W(Len(s))) \o s

----------------------------------------------------------------------------
\* IndexDescriptor.

IndexDescriptor_Zero == [Name |-> <<>>, ID |-> Zero64, Unique |-> FALSE,
                         ColumnNames |-> <<>>, ColumnIDs |-> <<>>,
                         XXX_unrecognized |-> <<>>]

IndexDescriptor_Case_LastWins(m, data, iNdEx, wire) ==
  LET fieldNum == FieldNum(wire)
      wireType == WireType(wire)
      v == ReadVarint(data, iNdEx)
      str == ReadString(data, iNdEx)
  IN  CASE fieldNum = 1 ->
             IF wireType # 2 THEN Step(ErrWrongWireType, m, iNdEx)
             ELSE StringStep(m, str, [m EXCEPT !.Name = str.s])
        [] fieldNum = 2 ->
             IF wireType # 0 THEN Step(ErrWrongWireType, m, iNdEx)
             ELSE VarintStep(v, [m EXCEPT !.ID = AccID(v.g)])
        [] fieldNum = 3 ->
             IF wireType # 0 THEN Step(ErrWrongWireType, m, iNdEx)
             ELSE LocalVarintStep(m, v, [m EXCEPT !.Unique = NonZero(v.g)])
        [] fieldNum = 4 ->
             IF wireType # 2 THEN Step(ErrWrongWireType, m, iNdEx)
             ELSE StringStep(m, str, [m EXCEPT !.ColumnNames = Append(@, str.s)])
        [] fieldNum = 5 ->
             IF wireType # 0 THEN Step(ErrWrongWireType, m, iNdEx)
             ELSE LocalVarintStep(m, v, [m EXCEPT !.ColumnIDs = <<AccID(v.g)>>])
        [] OTHER -> DefaultStep(m, UnmarshalDefault(data, iNdEx, wire))

IndexDescriptor_Case(m, data, iNdEx, wire) ==
  LET fieldNum == FieldNum(wire)
      wireType == WireType(wire)
      v == ReadVarint(data, iNdEx)
      str == ReadString(data, iNdEx)
  IN  CASE fieldNum = 1 ->
             IF wireType # 2 THEN Step(ErrWrongWireType, m, iNdEx)
             ELSE StringStep(m, str, [m EXCEPT !.Name = str.s])
        [] fieldNum = 2 ->
             IF wireType # 0 THEN Step(ErrWrongWireType, m, iNdEx)
             ELSE VarintStep(v, [m EXCEPT !.ID = AccID(v.g)])
        [] fieldNum = 3 ->
             IF wireType # 0 THEN Step(ErrWrongWireType, m, iNdEx)
             ELSE LocalVarintStep(m, v, [m EXCEPT !.Unique = NonZero(v.g)])
        [] fieldNum = 4 ->
             IF wireType # 2 THEN Step(ErrWrongWireType, m, iNdEx)
             ELSE StringStep(m, str, [m EXCEPT !.ColumnNames = Append(@, str.s)])
        [] fieldNum = 5 ->
             IF wireType # 0 THEN Step(ErrWrongWireType, m, iNdEx)
             ELSE LocalVarintStep(m, v,
                                  [m EXCEPT !.ColumnIDs = Append(@, AccID(v.g))])
        [] OTHER -> DefaultStep(m, UnmarshalDefault(data, iNdEx, wire))

IndexDescriptor_Field(m, data, t) ==
  IF t.eof THEN Step(ErrUnexpectedEOF, m, t.i)
  ELSE IndexDescriptor_Case(m, data, t.i, AccU64(t.g))

RECURSIVE IndexDescriptor_Loop(_, _, _)
IndexDescriptor_Continue(data, s) ==
  IF s.err # ErrNil THEN Ret(s.err, s.m) ELSE IndexDescriptor_Loop(s.m, data, s.i)

IndexDescriptor_Loop(m, data, iNdEx) ==
  IF iNdEx >= Len(data) THEN Ret(ErrNil, m)
  ELSE IndexDescriptor_Continue(
         data, IndexDescriptor_Field(m, data, ReadVarint(data, iNdEx)))

IndexDescriptor_Unmarshal(m, data) == IndexDescriptor_Loop(m, data, 0)

IndexDescriptor_Size(m) ==
  LET IDSize(e) == 1 + sovStructured(e)
  IN  StringFieldSize(m.Name) + (1 + sovStructured(m.ID)) + 2
        + SumOver([j \in DOMAIN m.ColumnNames |->
                     StringFieldSize(m.ColumnNames[j])])
        + SumOver([j \in DOMAIN m.ColumnIDs |-> IDSize(m.ColumnIDs[j])])
        + Len(m.XXX_unrecognized)

IndexDescriptor_MarshalTo(m) ==
  LET Name(s) == StringField(34, s)
      Num(e) == <<40>> \o encodeVarintStructured(e)
  IN  <<10>> \o encodeVarintStructured(W(Len(m.Name))) \o m.Name
        \o <<16>> \o encodeVarintStructured(m.ID)
        \o <<24>> \o (IF m.Unique THEN <<1>> ELSE <<0>>)
        \o ConcatOver([j \in DOMAIN m.ColumnNames |-> Name(m.ColumnNames[j])])
        \o ConcatOver([j \in DOMAIN m.ColumnIDs |-> Num(m.ColumnIDs[j])])
        \o m.XXX_unrecognized

IndexDescriptor_Marshal(m) ==
  MarshalInto(IndexDescriptor_Size(m), IndexDescriptor_MarshalTo(m))

----------------------------------------------------------------------------
\* PrivilegeDescriptor.

PrivilegeDescriptor_Zero == [Read |-> <<>>, Write |-> <<>>,
                             XXX_unrecognized |-> <<>>]

PrivilegeDescriptor_Case(m, data, iNdEx, wire) ==
  LET fieldNum == FieldNum(wire)
      wireType == WireType(wire)
      str == ReadString(data, iNdEx)
  IN  CASE fieldNum = 1 ->
             IF wireType # 2 THEN Step(ErrWrongWireType, m, iNdEx)
             ELSE StringStep(m, str, [m EXCEPT !.Read = Append(@, str.s)])
        [] fieldNum = 2 ->
             IF wireType # 2 THEN Step(ErrWrongWireType, m, iNdEx)
             ELSE StringStep(m, str, [m EXCEPT !.Write = Append(@, str.s)])
        [] OTHER -> DefaultStep(m, UnmarshalDefault(data, iNdEx, wire))

PrivilegeDescriptor_Field(m, data, t) ==
  IF t.eof THEN Step(ErrUnexpectedEOF, m, t.i)
  ELSE PrivilegeDescriptor_Case(m, data, t.i, AccU64(t.g))

RECURSIVE PrivilegeDescriptor_Loop(_, _, _)
PrivilegeDescriptor_Continue(data, s) ==
  IF s.err # ErrNil THEN Ret(s.err, s.m)
  ELSE PrivilegeDescriptor_Loop(s.m, data, s.i)

PrivilegeDescriptor_Loop(m, data, iNdEx) ==
  IF iNdEx >= Len(data) THEN Ret(ErrNil, m)
  ELSE PrivilegeDescriptor_Continue(
         data, PrivilegeDescriptor_Field(m, data, ReadVarint(data, iNdEx)))

PrivilegeDescriptor_Unmarshal(m, data) == PrivilegeDescriptor_Loop(m, data, 0)

PrivilegeDescriptor_Size(m) ==
  SumOver([j \in DOMAIN m.Read |-> StringFieldSize(m.Read[j])])
    + SumOver([j \in DOMAIN m.Write |-> StringFieldSize(m.Write[j])])
    + Len(m.XXX_unrecognized)

PrivilegeDescriptor_MarshalTo_WriteFirst(m) ==
  LET Read(s) == StringField(10, s)
      Write(s) == StringField(18, s)
  IN  ConcatOver([j \in DOMAIN m.Write |-> Write(m.Write[j])])
        \o ConcatOver([j \in DOMAIN m.Read |-> Read(m.Read[j])])
        \o m.XXX_unrecognized

\* A MarshalTo that leaves the captured unknown bytes out.
PrivilegeDescriptor_MarshalTo_NoUnrecognized(m) ==
  LET Read(s) == StringField(10, s)
      Write(s) == StringField(18, s)
  IN  ConcatOver([j \in DOMAIN m.Read |-> Read(m.Read[j])])
        \o ConcatOver([j \in DOMAIN m.Write |-> Write(m.Write[j])])

PrivilegeDescriptor_MarshalTo(m) ==
  LET Read(s) == StringField(10, s)
      Write(s) == StringField(18, s)
  IN  ConcatOver([j \in DOMAIN m.Read |-> Read(m.Read[j])])
        \o ConcatOver([j \in DOMAIN m.Write |-> Write(m.Write[j])])
        \o m.XXX_unrecognized

PrivilegeDescriptor_Marshal(m) ==
  MarshalInto(PrivilegeDescriptor_Size(m), PrivilegeDescriptor_MarshalTo(m))

\* A singular embedded PrivilegeDescriptor field (TableDescriptor case 8,
\* DatabaseDescriptor case 3) after m.PrivilegeDescriptor.Unmarshal returned
\* sub, and after the length prefix.
SetPrivileges(m, postIndex, sub) ==
  Step(sub.err, [m EXCEPT !.PrivilegeDescriptor = sub.m], postIndex)

\* A decode of the field into a fresh PrivilegeDescriptor that replaces the
\* one decoded before.
Privileges_Replace(m, msg) ==
  IF msg.err # ErrNil THEN Step(msg.err, m, msg.i)
  ELSE SetPrivileges(m, msg.i,
                     PrivilegeDescriptor_Unmarshal(PrivilegeDescriptor_Zero, msg.s))

Privileges(m, msg) ==
  IF msg.err # ErrNil THEN Step(msg.err, m, msg.i)
  ELSE SetPrivileges(m, msg.i,
                     PrivilegeDescriptor_Unmarshal(m.PrivilegeDescriptor, msg.s))

----------------------------------------------------------------------------
\* TableDescriptor.

TableDescriptor_Zero ==
  [Name |-> <<>>, ID |-> Zero64, Columns |-> <<>>, NextColumnID |-> Zero64,
   PrimaryIndex |-> IndexDescriptor_Zero, Indexes |-> <<>>,
   NextIndexID |-> Zero64, PrivilegeDescriptor |-> PrivilegeDescriptor_Zero,
   XXX_unrecognized |-> <<>>]

\* case 3: m.Columns = append(m.Columns, ColumnDescriptor{}), then the new
\* element's Unmarshal, which returned sub.
TableDescriptor_AddColumn(m, postIndex, sub) ==
  Step(sub.err, [m EXCEPT !.Columns = Append(@, sub.m)], postIndex)

TableDescriptor_Columns(m, msg) ==
  IF msg.err # ErrNil THEN Step(msg.err, m, msg.i)
  ELSE TableDescriptor_AddColumn(
         m, msg.i, ColumnDescriptor_Unmarshal(ColumnDescriptor_Zero, msg.s))

\* case 6: the same for m.Indexes; case 5: m.PrimaryIndex.Unmarshal on the
\* index already held.  repeated tells the two apart.
TableDescriptor_SetIndex(m, postIndex, repeated, sub) ==
  IF repeated
  THEN Step(sub.err, [m EXCEPT !.Indexes = Append(@, sub.m)], postIndex)
  ELSE Step(sub.err, [m EXCEPT !.PrimaryIndex = sub.m], postIndex)

TableDescriptor_Index(m, msg, repeated) ==
  IF msg.err # ErrNil THEN Step(msg.err, m, msg.i)
  ELSE TableDescriptor_SetIndex(
         m, msg.i, repeated,
         IndexDescriptor_Unmarshal(
           IF repeated THEN IndexDescriptor_Zero ELSE m.PrimaryIndex, msg.s))

TableDescriptor_Case(m, data, iNdEx, wire) ==
  LET fieldNum == FieldNum(wire)
      wireType == WireType(wire)
      v == ReadVarint(data, iNdEx)
      str == ReadString(data, iNdEx)
  IN  CASE fieldNum = 1 ->
             IF wireType # 2 THEN Step(ErrWrongWireType, m, iNdEx)
             ELSE StringStep(m, str, [m EXCEPT !.Name = str.s])
        [] fieldNum = 2 ->
             IF wireType # 0 THEN Step(ErrWrongWireType, m, iNdEx)
             ELSE VarintStep(v, [m EXCEPT !.ID = AccID(v.g)])
        [] fieldNum = 3 ->
             IF wireType # 2 THEN Step(ErrWrongWireType, m, iNdEx)
             ELSE TableDescriptor_Columns(m, ReadMsg(data, iNdEx))
        [] fieldNum = 4 ->
             IF wireType # 0 THEN Step(ErrWrongWireType, m, iNdEx)
             ELSE VarintStep(v, [m EXCEPT !.NextColumnID = AccID(v.g)])
        [] fieldNum \in {5, 6} ->
             IF wireType # 2 THEN Step(ErrWrongWireType, m, iNdEx)
             ELSE TableDescriptor_Index(m, ReadMsg(data, iNdEx), fieldNum = 6)
        [] fieldNum = 7 ->
             IF wireType # 0 THEN Step(ErrWrongWireType, m, iNdEx)
             ELSE VarintStep(v, [m EXCEPT !.NextIndexID = AccID(v.g)])
        [] fieldNum = 8 ->
             IF wireType # 2 THEN Step(ErrWrongWireType, m, iNdEx)
             ELSE Privileges(m, ReadMsg(data, iNdEx))
        [] OTHER -> DefaultStep(m, UnmarshalDefault(data, iNdEx, wire))

TableDescriptor_Field(m, data, t) ==
  IF t.eof THEN Step(ErrUnexpectedEOF, m, t.i)
  ELSE TableDescriptor_Case(m, data, t.i, AccU64(t.g))

RECURSIVE TableDescriptor_Loop(_, _, _)
TableDescriptor_Continue_Discard(data, s) ==
  IF s.err # ErrNil THEN Ret(s.err, TableDescriptor_Zero)
  ELSE TableDescriptor_Loop(s.m, data, s.i)

TableDescriptor_Continue(data, s) ==
  IF s.err # ErrNil THEN Ret(s.err, s.m) ELSE TableDescriptor_Loop(s.m, data, s.i)

TableDescriptor_Loop(m, data, iNdEx) ==
  IF iNdEx >= Len(data) THEN Ret(ErrNil, m)
  ELSE TableDescriptor_Continue(
         data, TableDescriptor_Field(m, data, ReadVarint(data, iNdEx)))

TableDescriptor_Unmarshal(m, data) == TableDescriptor_Loop(m, data, 0)

TableDescriptor_Size(m) ==
  LET ColSize(e) == MsgFieldSize(ColumnDescriptor_Size(e))
      IdxSize(e) == MsgFieldSize(IndexDescriptor_Size(e))
  IN  StringFieldSize(m.Name) + (1 + sovStructured(m.ID))
        + SumOver([j \in DOMAIN m.Columns |-> ColSize(m.Columns[j])])
        + (1 + sovStructured(m.NextColumnID))
        + IdxSize(m.PrimaryIndex)
        + SumOver([j \in DOMAIN m.Indexes |-> IdxSize(m.Indexes[j])])
        + (1 + sovStructured(m.NextIndexID))
        + MsgFieldSize(PrivilegeDescriptor_Size(m.PrivilegeDescriptor))
        + Len(m.XXX_unrecognized)

\* A nested message after its tag: its Size() as the length, then what its
\* MarshalTo wrote.
MsgField(tag, l, written) ==
  <<tag>> \o encodeVarintStructured(W(l)) \o written

TableDescriptor_MarshalTo(m) ==
  LET Column(msg) == MsgField(26, ColumnDescriptor_Size(msg),
                              ColumnDescriptor_MarshalTo(msg))
      Index(tag, msg) == MsgField(tag, IndexDescriptor_Size(msg),
                                  IndexDescriptor_MarshalTo(msg))
      Secondary(msg) == Index(50, msg)
  IN  <<10>> \o encodeVarintStructured(W(Len(m.Name))) \o m.Name
        \o <<16>> \o encodeVarintStructured(m.ID)
        \o ConcatOver([j \in DOMAIN m.Columns |-> Column(m.Columns[j])])
        \o <<32>> \o encodeVarintStructured(m.NextColumnID)
        \o Index(42, m.PrimaryIndex)
        \o ConcatOver([j \in DOMAIN m.Indexes |-> Secondary(m.Indexes[j])])
        \o <<56>> \o encodeVarintStructured(m.NextIndexID)
        \o MsgField(66, PrivilegeDescriptor_Size(m.PrivilegeDescriptor),
                    PrivilegeDescriptor_MarshalTo(m.PrivilegeDescriptor))
        \o m.XXX_unrecognized

TableDescriptor_Marshal(m) ==
  MarshalInto(TableDescriptor_Size(m), TableDescriptor_MarshalTo(m))

----------------------------------------------------------------------------
\* DatabaseDescriptor.

DatabaseDescriptor_Zero ==
  [Name |-> <<>>, ID |-> Zero64, PrivilegeDescriptor |-> PrivilegeDescriptor_Zero,
   XXX_unrecognized |-> <<>>]

DatabaseDescriptor_Case(m, data, iNdEx, wire) ==
  LET fieldNum == FieldNum(wire)
      wireType == WireType(wire)
      v == ReadVarint(data, iNdEx)
      str == ReadString(data, iNdEx)
  IN  CASE fieldNum = 1 ->
             IF wireType # 2 THEN Step(ErrWrongWireType, m, iNdEx)
             ELSE StringStep(m, str, [m EXCEPT !.Name = str.s])
        [] fieldNum = 2 ->
             IF wireType # 0 THEN Step(ErrWrongWireType, m, iNdEx)
             ELSE VarintStep(v, [m EXCEPT !.ID = AccID(v.g)])
        [] fieldNum = 3 ->
             IF wireType # 2 THEN Step(ErrWrongWireType, m, iNdEx)
             ELSE Privileges(m, ReadMsg(data, iNdEx))
        [] OTHER -> DefaultStep(m, UnmarshalDefault(data, iNdEx, wire))

DatabaseDescriptor_Field(m, data, t) ==
  IF t.eof THEN Step(ErrUnexpectedEOF, m, t.i)
  ELSE DatabaseDescriptor_Case(m, data, t.i, AccU64(t.g))

RECURSIVE DatabaseDescriptor_Loop(_, _, _)
DatabaseDescriptor_Continue(data, s) ==
  IF s.err # ErrNil THEN Ret(s.err, s.m)
  ELSE DatabaseDescriptor_Loop(s.m, data, s.i)

DatabaseDescriptor_Loop(m, data, iNdEx) ==
  IF iNdEx >= Len(data) THEN Ret(ErrNil, m)
  ELSE DatabaseDescriptor_Continue(
         data, DatabaseDescriptor_Field(m, data, ReadVarint(data, iNdEx)))

DatabaseDescriptor_Unmarshal(m, data) == DatabaseDescriptor_Loop(m, data, 0)

DatabaseDescriptor_Size(m) ==
  StringFieldSize(m.Name) + (1 + sovStructured(m.ID))
    + MsgFieldSize(PrivilegeDescriptor_Size(m.PrivilegeDescriptor))
    + Len(m.XXX_unrecognized)

DatabaseDescriptor_MarshalTo(m) ==
  <<10>> \o encodeVarintStructured(W(Len(m.Name))) \o m.Name
    \o <<16>> \o encodeVarintStructured(m.ID)
    \o MsgField(26, PrivilegeDescriptor_Size(m.PrivilegeDescriptor),
                PrivilegeDescriptor_MarshalTo(m.PrivilegeDescriptor))
    \o m.XXX_unrecognized

DatabaseDescriptor_Marshal(m) ==
  MarshalInto(DatabaseDescriptor_Size(m), DatabaseDescriptor_MarshalTo(m))

----------------------------------------------------------------------------
\* Accessors.  A receiver is a pointer: nil, or a reference to a value.
NilPtr == [nil |-> TRUE]
Ref(v) == [nil |-> FALSE, v |-> v]

\* ColumnType_BIT ColumnType_Kind = 0
ColumnType_BIT == Zero64

ColumnType_Get_NilKindINT(g, p) ==
  CASE g = "GetKind" -> IF ~p.nil THEN p.v.Kind ELSE W(1)
    [] g = "GetWidth" -> IF ~p.nil THEN p.v.Width ELSE Zero64
    [] g = "GetPrecision" -> IF ~p.nil THEN p.v.Precision ELSE Zero64

ColumnType_Get(g, p) ==
  CASE g = "GetKind" -> IF ~p.nil THEN p.v.Kind ELSE ColumnType_BIT
    [] g = "GetWidth" -> IF ~p.nil THEN p.v.Width ELSE Zero64
    [] g = "GetPrecision" -> IF ~p.nil THEN p.v.Precision ELSE Zero64

ColumnDescriptor_Get(g, p) ==
  CASE g = "GetName" -> IF ~p.nil THEN p.v.Name ELSE <<>>
    [] g = "GetID" -> IF ~p.nil THEN p.v.ID ELSE Zero64
    [] g = "GetType" -> IF ~p.nil THEN p.v.Type ELSE ColumnType_Zero
    [] g = "GetNullable" -> IF ~p.nil THEN p.v.Nullable ELSE FALSE

IndexDescriptor_Get(g, p) ==
  CASE g = "GetName" -> IF ~p.nil THEN p.v.Name ELSE <<>>
    [] g = "GetID" -> IF ~p.nil THEN p.v.ID ELSE Zero64
    [] g = "GetUnique" -> IF ~p.nil THEN p.v.Unique ELSE FALSE
    [] g = "GetColumnNames" -> IF ~p.nil THEN p.v.ColumnNames ELSE <<>>
    [] g = "GetColumnIDs" -> IF ~p.nil THEN p.v.ColumnIDs ELSE <<>>

PrivilegeDescriptor_Get(g, p) ==
  CASE g = "GetRead" -> IF ~p.nil THEN p.v.Read ELSE <<>>
    [] g = "GetWrite" -> IF ~p.nil THEN p.v.Write ELSE <<>>

TableDescriptor_Get(g, p) ==
  CASE g = "GetName" -> IF ~p.nil THEN p.v.Name ELSE <<>>
    [] g = "GetID" -> IF ~p.nil THEN p.v.ID ELSE Zero64
    [] g = "GetColumns" -> IF ~p.nil THEN p.v.Columns ELSE <<>>
    [] g = "GetNextColumnID" -> IF ~p.nil THEN p.v.NextColumnID ELSE Zero64
    [] g = "GetPrimaryIndex" ->
         IF ~p.nil THEN p.v.PrimaryIndex ELSE IndexDescriptor_Zero
    [] g = "GetIndexes" -> IF ~p.nil THEN p.v.Indexes ELSE <<>>
    [] g = "GetNextIndexID" -> IF ~p.nil THEN p.v.NextIndexID ELSE Zero64

DatabaseDescriptor_Get(g, p) ==
  CASE g = "GetName" -> IF ~p.nil THEN p.v.Name ELSE <<>>
    [] g = "GetID" -> IF ~p.nil THEN p.v.ID ELSE Zero64

\* The accessors each type declares.
Getters(T) ==
  CASE T = "ColumnType" -> {"GetKind", "GetWidth", "GetPrecision"}
    [] T = "ColumnDescriptor" -> {"GetName", "GetID", "GetType", "GetNullable"}
    [] T = "IndexDescriptor" ->
         {"GetName", "GetID", "GetUnique", "GetColumnNames", "GetColumnIDs"}
    [] T = "PrivilegeDescriptor" -> {"GetRead", "GetWrite"}
    [] T = "TableDescriptor" ->
         {"GetName", "GetID", "GetColumns", "GetNextColumnID", "GetPrimaryIndex",
          "GetIndexes", "GetNextIndexID"}
    [] T = "DatabaseDescriptor" -> {"GetName", "GetID"}

Get(T, g, p) ==
  CASE T = "ColumnType" -> ColumnType_Get(g, p)
    [] T = "ColumnDescriptor" -> ColumnDescriptor_Get(g, p)
    [] T = "IndexDescriptor" -> IndexDescriptor_Get(g, p)
    [] T = "PrivilegeDescriptor" -> PrivilegeDescriptor_Get(g, p)
    [] T = "TableDescriptor" -> TableDescriptor_Get(g, p)
    [] T = "DatabaseDescriptor" -> DatabaseDescriptor_Get(g, p)

----------------------------------------------------------------------------
\* The six message types behind one interface.

Types == {"ColumnType", "ColumnDescriptor", "IndexDescriptor",
          "PrivilegeDescriptor", "TableDescriptor", "DatabaseDescriptor"}

ZeroOf(T) ==
  CASE T = "ColumnType" -> ColumnType_Zero
    [] T = "ColumnDescriptor" -> ColumnDescriptor_Zero
    [] T = "IndexDescriptor" -> IndexDescriptor_Zero
    [] T = "PrivilegeDescriptor" -> PrivilegeDescriptor_Zero
    [] T = "TableDescriptor" -> TableDescriptor_Zero
    [] T = "DatabaseDescriptor" -> DatabaseDescriptor_Zero

Size(T, v) ==
  CASE T = "ColumnType" -> ColumnType_Size(v)
    [] T = "ColumnDescriptor" -> ColumnDescriptor_Size(v)
    [] T = "IndexDescriptor" -> IndexDescriptor_Size(v)
    [] T = "PrivilegeDescriptor" -> PrivilegeDescriptor_Size(v)
    [] T = "TableDescriptor" -> TableDescriptor_Size(v)
    [] T = "DatabaseDescriptor" -> DatabaseDescriptor_Size(v)

Marshal(T, v) ==
  CASE T = "ColumnType" -> ColumnType_Marshal(v)
    [] T = "ColumnDescriptor" -> ColumnDescriptor_Marshal(v)
    [] T = "IndexDescriptor" -> IndexDescriptor_Marshal(v)
    [] T = "PrivilegeDescriptor" -> PrivilegeDescriptor_Marshal(v)
    [] T = "TableDescriptor" -> TableDescriptor_Marshal(v)
    [] T = "DatabaseDescriptor" -> DatabaseDescriptor_Marshal(v)

Unmarshal(T, v, buf) ==
  CASE T = "ColumnType" -> ColumnType_Unmarshal(v, buf)
    [] T = "ColumnDescriptor" -> ColumnDescriptor_Unmarshal(v, buf)
    [] T = "IndexDescriptor" -> IndexDescriptor_Unmarshal(v, buf)
    [] T = "PrivilegeDescriptor" -> PrivilegeDescriptor_Unmarshal(v, buf)
    [] T = "TableDescriptor" -> TableDescriptor_Unmarshal(v, buf)
    [] T = "DatabaseDescriptor" -> DatabaseDescriptor_Unmarshal(v, buf)

----------------------------------------------------------------------------
\* The descriptor values the checks draw from.

\* The longest repeated field of a drawn value.
MaxRep == 2

SeqsUpTo(S, n) == UNION {[1..k -> S] : k \in 0..n}

\* The first min(n, Len(s)) elements of s.
Prefixes(s, n) == {SubSeq(s, 1, k) : k \in 0..(IF n < Len(s) THEN n ELSE Len(s))}

Str_a == <<97>>
Str_b == <<98>>
Str_items == <<105, 116, 101, 109, 115>>
Str_primary == <<112, 114, 105, 109, 97, 114, 121>>
Str_root == <<114, 111, 111, 116>>
Str_long == [k \in 1..128 |-> 120]

\* Captured unknown bytes: none, field 99 as varint 5, and that field
\* followed by field 100 as fixed32.
Unknown99 == <<152, 6, 5>>
Unknown100 == <<165, 6, 1, 2, 3, 4>>
XXXSamples == {<<>>, Unknown99, Unknown99 \o Unknown100}

CT(kind, width, precision, xxx) ==
  [Kind |-> OfInt32(kind), Width |-> OfInt32(width),
   Precision |-> OfInt32(precision), XXX_unrecognized |-> xxx]

ColumnType_INT == CT(1, 0, 0, <<>>)

ColumnTypeValues ==
  {CT(k, w, p, x) : k \in {0, 1, 6, 11, -1}, w \in {0, 127, 128, 2147483647},
                    p \in {0, -1, -2147483647 - 1}, x \in XXXSamples}

ColumnDescriptorValues ==
  [Name : {<<>>, Str_a}, ID : {Zero64, W(1), W(300)},
   Type : {ColumnType_Zero, ColumnType_INT, CT(-1, 128, 0, Unknown99)},
   Nullable : BOOLEAN, XXX_unrecognized : XXXSamples]

IndexDescriptorValues ==
  [Name : {<<>>, Str_primary}, ID : {W(300)}, Unique : BOOLEAN,
   ColumnNames : SeqsUpTo({Str_a, Str_b}, MaxRep),
   ColumnIDs : Prefixes(<<W(1), W(300), W(2), W(1)>>, MaxRep),
   XXX_unrecognized : {<<>>, Unknown99}]

PrivilegeDescriptorValues ==
  [Read : SeqsUpTo({Str_root, <<>>}, MaxRep),
   Write : Prefixes(<<Str_root, Str_a, <<>>, Str_b>>, MaxRep),
   XXX_unrecognized : {<<>>, Unknown99}]

Col(i, n) == [Name |-> n, ID |-> W(i), Type |-> ColumnType_INT,
              Nullable |-> FALSE, XXX_unrecognized |-> <<>>]

Idx(i, n, u, names, ids, x) ==
  [Name |-> n, ID |-> W(i), Unique |-> u, ColumnNames |-> names,
   ColumnIDs |-> ids, XXX_unrecognized |-> x]

Priv(r, w, x) == [Read |-> r, Write |-> w, XXX_unrecognized |-> x]

SomeColumns == <<Col(1, Str_a), Col(2, Str_b),
                 [Col(3, <<>>) EXCEPT !.Nullable = TRUE,
                                      !.XXX_unrecognized = Unknown99],
                 Col(4, Str_a)>>

SomeIndexes == <<Idx(2, Str_b, FALSE, <<Str_b>>, <<W(2)>>, <<>>),
                 Idx(3, Str_a, TRUE, <<Str_a>>, <<W(1)>>, Unknown99),
                 Idx(4, <<>>, FALSE, <<>>, <<>>, <<>>),
                 Idx(5, Str_b, TRUE, <<Str_b, Str_a>>, <<W(2), W(1)>>, <<>>)>>

PrimaryIndexes == {IndexDescriptor_Zero,
                   Idx(1, Str_primary, TRUE, <<Str_a, Str_b>>, <<W(1), W(2)>>, <<>>)}

SomePrivileges == {PrivilegeDescriptor_Zero,
                   Priv(<<Str_root>>, <<Str_root>>, <<>>)}

TableDescriptorValues ==
  {TableDescriptor_Zero} \cup
  [Name : {Str_items}, ID : {W(53)},
   Columns : Prefixes(SomeColumns, MaxRep), NextColumnID : {W(3)},
   PrimaryIndex : PrimaryIndexes, Indexes : Prefixes(SomeIndexes, MaxRep),
   NextIndexID : {W(2)}, PrivilegeDescriptor : SomePrivileges,
   XXX_unrecognized : {<<>>, Unknown99}]

DatabaseDescriptorValues ==
  [Name : {<<>>, Str_items, Str_long}, ID : {W(53), W(300)},
   PrivilegeDescriptor :
     SomePrivileges \cup {Priv(<<Str_root, <<>>>>, <<>>, Unknown99)},
   XXX_unrecognized : {<<>>, Unknown99}]

Values(T) ==
  CASE T = "ColumnType" -> ColumnTypeValues
    [] T = "ColumnDescriptor" -> ColumnDescriptorValues
    [] T = "IndexDescriptor" -> IndexDescriptorValues
    [] T = "PrivilegeDescriptor" -> PrivilegeDescriptorValues
    [] T = "TableDescriptor" -> TableDescriptorValues
    [] T = "DatabaseDescriptor" -> DatabaseDescriptorValues

----------------------------------------------------------------------------
\* The state: one descriptor value, one buffer, and the calls made on them.

VARIABLES
  typ,     \* the message type of the run
  m,       \* the descriptor value: Marshal's receiver, Unmarshal's receiver
  data,    \* the buffer: Marshal's result, Unmarshal's input
  err,     \* what the last call returned as its error
  pc,      \* the last call made
  src,     \* the receiver as it was before the last call
  size,    \* what Size() returned inside the last Marshal
  enc,     \* the buffer as Marshal returned it, before it was cut or extended
  fields,  \* the raw fields the input buffer was put together from
  ret      \* what the last accessor, Size or second Marshal call returned

vars == <<typ, m, data, err, pc, src, size, enc, fields, ret>>

\* No such call was made yet.
NoCall == [call |-> "none"]

\* A run that starts from a descriptor value.
Init ==
  /\ typ \in Types
  /\ m \in Values(typ)
  /\ data = <<>>
  /\ err = ErrNil
  /\ pc = "value"
  /\ src = m
  /\ size = 0
  /\ enc = <<>>
  /\ fields = <<>>
  /\ ret = NoCall

\* A Marshal that hands over the captured unknown bytes and drops them
\* from the value.
DoMarshal_DropsUnrecognized ==
  /\ pc = "value"
  /\ LET r == Marshal(typ, m)
     IN  /\ data' = r.data
         /\ err' = r.err
         /\ enc' = r.data
  /\ size' = Size(typ, m)
  /\ src' = m
  /\ m' = [m EXCEPT !.XXX_unrecognized = <<>>]
  /\ pc' = "marshalled"
  /\ UNCHANGED <<typ, fields, ret>>

\* data, err := m.Marshal()
DoMarshal ==
  /\ pc = "value"
  /\ LET r == Marshal(typ, m)
     IN  /\ data' = r.data
         /\ err' = r.err
         /\ enc' = r.data
  /\ size' = Size(typ, m)
  /\ src' = m
  /\ pc' = "marshalled"
  /\ UNCHANGED <<typ, m, fields, ret>>

\* The caller keeps the first k bytes of the encoding only.
Truncate(k) ==
  /\ pc = "marshalled"
  /\ err = ErrNil
  /\ k < Len(data)
  /\ data' = SubSeq(data, 1, k)
  /\ pc' = "truncated"
  /\ UNCHANGED <<typ, m, err, src, size, enc, fields, ret>>

\* The caller appends a field of a number no schema has.
Extend(f) ==
  /\ pc = "marshalled"
  /\ err = ErrNil
  /\ data' = data \o f
  /\ fields' = <<f>>
  /\ pc' = "extended"
  /\ UNCHANGED <<typ, m, err, src, size, enc, ret>>

\* err := fresh.Unmarshal(data), fresh a zero value of the type
DoUnmarshal ==
  /\ pc \in {"marshalled", "truncated", "extended"}
  /\ err = ErrNil
  /\ LET r == Unmarshal(typ, ZeroOf(typ), data)
     IN  /\ m' = r.m
         /\ err' = r.err
  /\ pc' = IF pc = "marshalled" THEN "decoded"
           ELSE IF pc = "truncated" THEN "decodedCut" ELSE "decodedExt"
  /\ UNCHANGED <<typ, data, src, size, enc, fields, ret>>

\* data, err := m.Marshal() on the decoded value
DoRemarshal ==
  /\ pc = "decodedExt"
  /\ err = ErrNil
  /\ LET r == Marshal(typ, m)
     IN  /\ data' = r.data
         /\ err' = r.err
  /\ size' = Size(typ, m)
  /\ pc' = "remarshalled"
  /\ UNCHANGED <<typ, m, src, enc, fields, ret>>

\* v := p.GetX(), on the value or on a nil pointer of its type.
CallGetter(g, absent) ==
  /\ pc = "value"
  /\ ret' = [call |-> g, absent |-> absent,
             v |-> Get(typ, g, IF absent THEN NilPtr ELSE Ref(m))]
  /\ pc' = "got"
  /\ UNCHANGED <<typ, m, data, err, src, size, enc, fields>>

\* n := m.Size(), or data, err := m.Marshal(), on the value that has been
\* marshalled once already.
CallAgain(call) ==
  /\ pc = "marshalled"
  /\ ret' = IF call = "Size"
            THEN [call |-> call, n |-> Size(typ, m)]
            ELSE [call |-> call, data |-> Marshal(typ, m).data,
                  err |-> Marshal(typ, m).err]
  /\ pc' = "again"
  /\ UNCHANGED <<typ, m, data, err, src, size, enc, fields>>

Next ==
  \/ DoMarshal
  \/ \E call \in {"Size", "Marshal"} : CallAgain(call)
  \/ \E g \in Getters(typ), absent \in BOOLEAN : CallGetter(g, absent)
  \/ \E k \in 0..Len(data) : Truncate(k)
  \/ \E f \in {Unknown99, Unknown100} : Extend(f)
  \/ DoUnmarshal
  \/ DoRemarshal

Spec == Init /\ [][Next]_vars

----------------------------------------------------------------------------
\* A run that starts from raw bytes: the input is put together from whole
\* fields, then decoded into a fresh value and encoded again.

\* The most fields an input is put together from.
MaxFields == 2

\* The most fields of an input made of well-formed schema fields alone.
MaxKnown == 3

\* A raw field: its bytes b, its field number num (0: a number beyond 32
\* bits), its wire type wt, and what it is:
\*   "ok"          a complete field, its tag minimally encoded
\*   "nonminimal"  a complete field whose tag varint carries continuation
\*                 bytes that add no bits
\*   "wide"        a complete field whose number is 2^32 + 2
\*   "neglen"      a length prefix that is negative as an int
\*   "pastend"     a length prefix that points past the end of the buffer
\*   "hugelen"     the length prefix 2^63 - 1
\*   "wrongwt"     a schema field under another wire type than its own
\*   "illegalwt"   wire type 6 or 7
\*   "cutvarint"   a varint value whose last byte has the high bit set
\*   "cuttag"      a tag whose last byte has the high bit set
\*   "cutlen"      a length prefix whose last byte has the high bit set
\*   "cutnested"   a nested message that ends in such a tag, value or prefix
\*   "cutgroup"    a group that ends in such a tag or value
\*   "paddedcut"   such a varint value behind a non-minimal tag
\*   "narrowed"    a complete 32-bit field whose varint has bits at shift 31
\*                 or above that are no sign extension, or has 11 bytes
\*   "boolform"    a complete bool field whose varint is not the byte 0 or 1
\*   "opengroup"   a group with no end-group tag at its own depth
\*   "mismatched"  a group whose end-group tags carry other field numbers
\*                 than the group-start tags they close
\*   "short"       an unknown field whose fixed width or length runs past
\*                 the end of the buffer
\*   "overlong"    an unknown field whose length is 2^63 - 1, or 2^63 - 1
\*                 less the bytes of its tag and prefix, or a group that
\*                 holds such a field
\*   "badnested"   a nested message with a wrong wire type inside
F(b, num, wt, class) == [b |-> b, num |-> num, wt |-> wt, class |-> class]

Neg1 == <<255, 255, 255, 255, 255, 255, 255, 255, 255, 1>>
Huge == <<255, 255, 255, 255, 255, 255, 255, 255, 127>>

\* Fields of numbers no schema has: varint, fixed32, length-delimited, group.
UnknownFields ==
  {F(Unknown99, 99, 0, "ok"), F(Unknown100, 100, 5, "ok"),
   F(<<170, 6, 2, 7, 7>>, 101, 2, "ok"),
   F(<<179, 6, 8, 1, 180, 6>>, 102, 3, "ok"),
   F(<<152, 134, 128, 0, 5>>, 99, 0, "nonminimal"),
   F(<<144, 128, 128, 128, 128, 1, 5>>, 0, 0, "wide"),
   F(<<159, 6, 5>>, 99, 7, "illegalwt"),
   F(<<158, 134, 128, 0, 5>>, 99, 6, "illegalwt"),
   F(<<136>>, 0, 0, "cuttag"), F(<<152, 6, 133>>, 99, 0, "cutvarint"),
   F(<<170, 6, 130>>, 101, 2, "cutlen"),
   F(<<179, 6, 136>>, 102, 3, "cutgroup"),
   F(<<179, 6, 8, 129>>, 102, 3, "cutgroup"),
   F(<<152, 134, 0, 255>>, 99, 0, "paddedcut"),
   F(<<152, 6, 133, 2>>, 99, 0, "ok"),
   F(<<179, 6, 187, 6, 8, 1, 188, 6, 180, 6>>, 102, 3, "ok"),
   F(<<179, 6, 8, 1>>, 102, 3, "opengroup"),
   F(<<179, 6, 187, 6, 8, 1, 188, 6>>, 102, 3, "opengroup"),
   F(<<179, 6, 8, 1, 188, 6>>, 102, 3, "mismatched"),
   F(<<179, 6, 187, 6, 8, 1, 180, 6, 188, 6>>, 102, 3, "mismatched"),
   F(<<185, 6, 1, 2, 3, 4, 5, 6, 7, 8>>, 103, 1, "ok"),
   F(<<185, 6, 1, 2, 3>>, 103, 1, "short"), F(<<165, 6, 1>>, 100, 5, "short"),
   F(<<170, 6, 7, 1, 1>>, 101, 2, "short"),
   F(<<170, 6>> \o Huge, 101, 2, "overlong"),
   F(<<170, 6, 244, 255, 255, 255, 255, 255, 255, 255, 127>>, 101, 2,
     "overlong"),
   F(<<179, 6, 170, 6, 244, 255, 255, 255, 255, 255, 255, 255, 127>>, 102, 3,
     "overlong")}

ColumnTypeFields ==
  {F(<<8, 1>>, 1, 0, "ok"), F(<<8>> \o Neg1, 1, 0, "ok"),
   F(<<8, 6>>, 1, 0, "ok"), F(<<8, 11>>, 1, 0, "ok"),
   F(<<8, 255, 255, 255, 255, 7>>, 1, 0, "ok"),
   F(<<8, 128, 128, 128, 128, 248, 255, 255, 255, 255, 1>>, 1, 0, "ok"),
   F(<<16, 128, 1>>, 2, 0, "ok"), F(<<16, 7>>, 2, 0, "ok"),
   F(<<24, 5>>, 3, 0, "ok"),
   F(<<10, 0>>, 1, 2, "wrongwt"), F(<<14, 0>>, 1, 6, "illegalwt"),
   F(<<16, 133>>, 2, 0, "cutvarint"),
   F(<<8, 133, 128, 128, 128, 16>>, 1, 0, "narrowed"),
   F(<<16, 128, 128, 128, 128, 8>>, 2, 0, "narrowed"),
   F(<<24, 128, 128, 128, 128, 128, 1>>, 3, 0, "narrowed"),
   F(<<16, 129, 128, 128, 128, 128, 128, 128, 128, 128, 128, 1>>, 2, 0,
     "narrowed"),
   F(<<8, 255, 255, 255, 255, 255, 255, 255, 255, 255, 255, 127>>, 1, 0,
     "narrowed")}

ColumnDescriptorFields ==
  {F(<<10, 1, 97>>, 1, 2, "ok"), F(<<10, 0>>, 1, 2, "ok"),
   F(<<16, 1>>, 2, 0, "ok"), F(<<16, 2>>, 2, 0, "ok"),
   F(<<26, 2, 8, 1>>, 3, 2, "ok"), F(<<26, 5, 8, 1, 152, 6, 5>>, 3, 2, "ok"),
   F(<<26, 4, 8, 6, 16, 7>>, 3, 2, "ok"),
   F(<<32, 1>>, 4, 0, "ok"), F(<<32, 0>>, 4, 0, "ok"),
   F(<<32, 2>>, 4, 0, "boolform"), F(<<32, 128, 1>>, 4, 0, "boolform"),
   F(<<32, 128, 0>>, 4, 0, "boolform"), F(<<32>> \o Neg1, 4, 0, "boolform"),
   F(<<32, 128, 128, 128, 128, 128, 128, 128, 128, 128, 1>>, 4, 0,
     "boolform"),
   F(<<10>> \o Neg1, 1, 2, "neglen"), F(<<10, 5, 97>>, 1, 2, "pastend"),
   F(<<26>> \o Neg1, 3, 2, "neglen"), F(<<26, 5, 8>>, 3, 2, "pastend"),
   F(<<26>> \o Huge, 3, 2, "hugelen"),
   F(<<8, 1>>, 1, 0, "wrongwt"), F(<<22, 0>>, 2, 6, "illegalwt"),
   F(<<26, 4, 8, 1, 18, 0>>, 3, 2, "badnested"),
   F(<<10, 129>>, 1, 2, "cutlen"), F(<<26, 2, 8, 129>>, 3, 2, "cutnested")}

IndexDescriptorFields ==
  {F(<<10, 1, 97>>, 1, 2, "ok"), F(<<10, 1, 98>>, 1, 2, "ok"),
   F(<<16, 1>>, 2, 0, "ok"),
   F(<<24, 1>>, 3, 0, "ok"), F(<<24, 0>>, 3, 0, "ok"),
   F(<<24, 2>>, 3, 0, "boolform"), F(<<24, 129, 128, 0>>, 3, 0, "boolform"),
   F(<<24, 128, 128, 0>>, 3, 0, "boolform"),
   F(<<34, 1, 97>>, 4, 2, "ok"),
   F(<<34, 1, 98>>, 4, 2, "ok"), F(<<40, 1>>, 5, 0, "ok"),
   F(<<40, 2>>, 5, 0, "ok"),
   F(<<34>> \o Neg1, 4, 2, "neglen"), F(<<34, 3, 97>>, 4, 2, "pastend"),
   F(<<10>> \o Huge, 1, 2, "hugelen"),
   F(<<32, 1>>, 4, 0, "wrongwt"), F(<<46, 0>>, 5, 6, "illegalwt"),
   F(<<40, 129>>, 5, 0, "cutvarint"), F(<<34, 129>>, 4, 2, "cutlen")}

PrivilegeDescriptorFields ==
  {F(<<10>> \o <<4>> \o Str_root, 1, 2, "ok"), F(<<10, 1, 97>>, 1, 2, "ok"),
   F(<<18, 1, 98>>, 2, 2, "ok"),
   F(<<10>> \o Neg1, 1, 2, "neglen"), F(<<18, 9, 97>>, 2, 2, "pastend"),
   F(<<8, 1>>, 1, 0, "wrongwt"), F(<<23, 0>>, 2, 7, "illegalwt"),
   F(<<18, 130>>, 2, 2, "cutlen")}

TableDescriptorFields ==
  {F(<<10, 1, 97>>, 1, 2, "ok"), F(<<10, 1, 98>>, 1, 2, "ok"),
   F(<<16, 53>>, 2, 0, "ok"),
   F(<<26, 4, 10, 0, 16, 1>>, 3, 2, "ok"), F(<<26, 2, 16, 2>>, 3, 2, "ok"),
   F(<<26, 5, 16, 1, 152, 6, 5>>, 3, 2, "ok"),
   F(<<26, 7, 26, 5, 8, 1, 152, 6, 5>>, 3, 2, "ok"),
   F(<<42, 5, 16, 1, 152, 6, 5>>, 5, 2, "ok"),
   F(<<66, 6, 10, 1, 97, 152, 6, 5>>, 8, 2, "ok"),
   F(<<32, 3>>, 4, 0, "ok"),
   F(<<42, 5, 34, 1, 97, 40, 1>>, 5, 2, "ok"),
   F(<<50, 2, 16, 2>>, 6, 2, "ok"), F(<<50, 2, 24, 1>>, 6, 2, "ok"),
   F(<<56, 2>>, 7, 0, "ok"),
   F(<<66, 3, 10, 1, 97>>, 8, 2, "ok"),
   F(<<10>> \o Neg1, 1, 2, "neglen"), F(<<26>> \o Neg1, 3, 2, "neglen"),
   F(<<26, 9, 10, 0>>, 3, 2, "pastend"), F(<<66>> \o Huge, 8, 2, "hugelen"),
   F(<<24, 1>>, 3, 0, "wrongwt"), F(<<62, 0>>, 7, 6, "illegalwt"),
   F(<<26, 4, 16, 7, 8, 1>>, 3, 2, "badnested"),
   F(<<32, 255>>, 4, 0, "cutvarint"), F(<<26, 130>>, 3, 2, "cutlen"),
   F(<<26, 4, 26, 2, 8, 129>>, 3, 2, "cutnested"),
   F(<<66, 1, 138>>, 8, 2, "cutnested")}

DatabaseDescriptorFields ==
  {F(<<10, 1, 97>>, 1, 2, "ok"), F(<<10, 1, 98>>, 1, 2, "ok"),
   F(<<16, 53>>, 2, 0, "ok"), F(<<16, 54>>, 2, 0, "ok"),
   F(<<26, 3, 18, 1, 98>>, 3, 2, "ok"),
   F(<<26, 6, 10, 1, 97, 152, 6, 5>>, 3, 2, "ok"),
   F(<<10>> \o Neg1, 1, 2, "neglen"), F(<<26>> \o Neg1, 3, 2, "neglen"),
   F(<<26, 2, 10>>, 3, 2, "pastend"), F(<<26>> \o Huge, 3, 2, "hugelen"),
   F(<<18, 0>>, 2, 2, "wrongwt"), F(<<15, 0>>, 1, 7, "illegalwt"),
   F(<<26, 5, 10, 1, 97, 16, 0>>, 3, 2, "badnested"),
   F(<<16, 181>>, 2, 0, "cutvarint"),
   F(<<26, 2, 10, 129>>, 3, 2, "cutnested")}

RawFields(T) ==
  UnknownFields \cup
  (CASE T = "ColumnType" -> ColumnTypeFields
     [] T = "ColumnDescriptor" -> ColumnDescriptorFields
     [] T = "IndexDescriptor" -> IndexDescriptorFields
     [] T = "PrivilegeDescriptor" -> PrivilegeDescriptorFields
     [] T = "TableDescriptor" -> TableDescriptorFields
     [] T = "DatabaseDescriptor" -> DatabaseDescriptorFields)

\* The classes of complete fields; a field of another class ends the input.
Complete == {"ok", "nonminimal", "wide"}

\* The field numbers of a type's schema.
Schema(T) ==
  CASE T = "ColumnType" -> 1..3
    [] T = "ColumnDescriptor" -> 1..4
    [] T = "IndexDescriptor" -> 1..5
    [] T = "PrivilegeDescriptor" -> 1..2
    [] T = "TableDescriptor" -> 1..8
    [] T = "DatabaseDescriptor" -> 1..3

InitRaw ==
  /\ typ \in Types
  /\ m = ZeroOf(typ)
  /\ data = <<>>
  /\ err = ErrNil
  /\ pc = "input"
  /\ src = m
  /\ size = 0
  /\ enc = <<>>
  /\ fields = <<>>
  /\ ret = NoCall

\* The caller appends one more field to the input.
AddField(f) ==
  /\ pc = "input"
  /\ \/ Len(fields) < MaxFields
     \/ /\ Len(fields) < MaxKnown
        /\ \A g \in {f} \cup {fields[j] : j \in DOMAIN fields} :
             g.class = "ok" /\ g.num \in Schema(typ)
  /\ fields # <<>> => fields[Len(fields)].class \in Complete
  /\ fields' = Append(fields, f)
  /\ data' = data \o f.b
  /\ UNCHANGED <<typ, m, err, pc, src, size, enc, ret>>

\* err := m.Unmarshal(data)
DoUnmarshalRaw ==
  /\ pc = "input"
  /\ LET r == Unmarshal(typ, m, data)
     IN  /\ m' = r.m
         /\ err' = r.err
  /\ src' = m
  /\ pc' = "decodedRaw"
  /\ UNCHANGED <<typ, data, size, enc, fields, ret>>

\* out, err := m.Marshal() on the decoded value; enc keeps the input.
DoRemarshalRaw ==
  /\ pc = "decodedRaw"
  /\ err = ErrNil
  /\ LET r == Marshal(typ, m)
     IN  /\ data' = r.data
         /\ err' = r.err
  /\ size' = Size(typ, m)
  /\ enc' = data
  /\ pc' = "remarshalledRaw"
  /\ UNCHANGED <<typ, m, src, fields, ret>>

\* The buffers of a second call: nothing, or one complete field.
MoreInput(T) == {<<>>} \cup {f.b : f \in {g \in RawFields(T) : g.class \in Complete}}

\* A second call that starts from a zero value instead of the receiver.
DoUnmarshalMore_Reset(b) ==
  /\ pc = "decodedRaw"
  /\ err = ErrNil
  /\ Len(fields) < MaxFields
  /\ LET r == Unmarshal(typ, ZeroOf(typ), b)
     IN  /\ m' = r.m
         /\ err' = r.err
  /\ data' = b
  /\ enc' = data
  /\ pc' = "decodedTwice"
  /\ UNCHANGED <<typ, src, size, fields, ret>>

\* err := m.Unmarshal(b) on the receiver of the first call; enc keeps the
\* first buffer.
DoUnmarshalMore(b) ==
  /\ pc = "decodedRaw"
  /\ err = ErrNil
  /\ Len(fields) < MaxFields
  /\ LET r == Unmarshal(typ, m, b)
     IN  /\ m' = r.m
         /\ err' = r.err
  /\ data' = b
  /\ enc' = data
  /\ pc' = "decodedTwice"
  /\ UNCHANGED <<typ, src, size, fields, ret>>

NextRaw ==
  \/ \E f \in RawFields(typ) : AddField(f)
  \/ DoUnmarshalRaw
  \/ \E b \in MoreInput(typ) : DoUnmarshalMore(b)
  \/ DoRemarshalRaw

SpecRaw == InitRaw /\ [][NextRaw]_vars

----------------------------------------------------------------------------
\* One varint written and read back: m is the uint64, data the buffer it is
\* written into at ret.offset, size the bytes the caller allowed for it.

\* 2^k and 2^k - 1 as words, k in 0..64.
VarintValues ==
  LET P(k) == IF k < 0 THEN 0 ELSE 2 ^ k
      Bit(k) == [lo |-> IF k < 28 THEN P(k) ELSE 0,
                 mid |-> IF k >= 28 /\ k < 56 THEN P(k - 28) ELSE 0,
                 hi |-> IF k >= 56 THEN P(k - 56) ELSE 0]
      Ones(k) == [lo |-> IF k < 28 THEN P(k) - 1 ELSE Pow28 - 1,
                  mid |-> IF k < 28 THEN 0
                          ELSE IF k < 56 THEN P(k - 28) - 1 ELSE Pow28 - 1,
                  hi |-> IF k < 56 THEN 0 ELSE P(k - 56) - 1]
  IN  {Bit(k) : k \in 0..63} \cup {Ones(k) : k \in 0..64} \cup {W(300)}

\* The caller's buffer: make([]byte, offset + sovStructured(v) + 1), with
\* the bytes around the varint holding b.
InitVarint ==
  \E v \in VarintValues, offset \in {0, 2}, b \in {0, 255} :
    /\ typ = "uint64"
    /\ m = v
    /\ size = sovStructured(v)
    /\ data = [k \in 1..(offset + size + 1) |-> b]
    /\ err = ErrNil
    /\ pc = "buffer"
    /\ src = v
    /\ enc = data
    /\ fields = <<>>
    /\ ret = [call |-> "encodeVarintStructured", offset |-> offset, i |-> 0]

\* i = encodeVarintStructured(data, offset, v)
EncodeVarint ==
  /\ pc = "buffer"
  /\ LET bytes == encodeVarintStructured(m)
     IN  /\ data' = [k \in DOMAIN data |->
                       IF k > ret.offset /\ k <= ret.offset + Len(bytes)
                       THEN bytes[k - ret.offset] ELSE data[k]]
         /\ ret' = [ret EXCEPT !.i = ret.offset + Len(bytes)]
  /\ pc' = "written"
  /\ UNCHANGED <<typ, m, err, src, size, enc, fields>>

\* The decode loop from iNdEx = offset, into a zeroed uint64.
DecodeVarint ==
  /\ pc = "written"
  /\ LET r == ReadVarint(data, ret.offset)
     IN  /\ m' = AccU64(r.g)
         /\ err' = IF r.eof THEN ErrUnexpectedEOF ELSE ErrNil
         /\ ret' = [ret EXCEPT !.call = "decode", !.i = r.i]
  /\ pc' = "read"
  /\ UNCHANGED <<typ, data, src, size, enc, fields>>

NextVarint ==
  \/ EncodeVarint
  \/ DecodeVarint

SpecVarint == InitVarint /\ [][NextVarint]_vars

----------------------------------------------------------------------------
\* Concurrent calls: every thread makes one call on a value and a buffer of
\* its own, and the calls are interleaved at the steps below.  In such a run
\* every variable is a function of the thread; typ, m, data, err, pc, src
\* and size are that thread's, enc[t] is the buffer the thread was given and
\* ret[t] the call it makes and the iNdEx of its Unmarshal loop.
Threads == {"t1", "t2"}

ItemsTable ==
  [Name |-> Str_items, ID |-> W(53),
   Columns |-> <<Col(1, Str_a), Col(2, Str_b)>>, NextColumnID |-> W(3),
   PrimaryIndex |->
     Idx(1, Str_primary, TRUE, <<Str_a, Str_b>>, <<W(1), W(2)>>, <<>>),
   Indexes |-> <<>>, NextIndexID |-> W(2),
   PrivilegeDescriptor |-> Priv(<<Str_root>>, <<Str_root>>, <<>>),
   XXX_unrecognized |-> <<>>]

Job(call, T, v, buf) == [call |-> call, typ |-> T, m |-> v, data |-> buf]

\* The calls a thread may make.
Jobs ==
  {Job("Unmarshal", "TableDescriptor", TableDescriptor_Zero,
       TableDescriptor_MarshalTo(ItemsTable)),
   Job("Unmarshal", "IndexDescriptor", IndexDescriptor_Zero,
       <<10, 1, 97, 40, 1, 34, 3, 97>>),
   Job("Unmarshal", "ColumnType", ColumnType_INT, <<16, 7, 152, 6, 5>>),
   Job("Marshal", "TableDescriptor", ItemsTable, <<>>),
   Job("Marshal", "DatabaseDescriptor",
       [Name |-> Str_a, ID |-> W(300),
        PrivilegeDescriptor |-> Priv(<<Str_root>>, <<>>, Unknown99),
        XXX_unrecognized |-> Unknown100], <<>>),
   Job("Size", "ColumnDescriptor", Col(1, Str_a), <<>>)}

InitPar ==
  \E job \in [Threads -> Jobs] :
    /\ typ = [t \in Threads |-> job[t].typ]
    /\ m = [t \in Threads |-> job[t].m]
    /\ data = [t \in Threads |-> job[t].data]
    /\ err = [t \in Threads |-> ErrNil]
    /\ pc = [t \in Threads |-> "start"]
    /\ src = m
    /\ size = [t \in Threads |-> 0]
    /\ enc = data
    /\ fields = <<>>
    /\ ret = [t \in Threads |-> [call |-> job[t].call, iNdEx |-> 0]]

\* One iteration of the loop of T's Unmarshal, from iNdEx on.
Field(T, v, buf, iNdEx) ==
  CASE T = "ColumnType" -> ColumnType_Field(v, buf, ReadVarint(buf, iNdEx))
    [] T = "ColumnDescriptor" ->
         ColumnDescriptor_Field(v, buf, ReadVarint(buf, iNdEx))
    [] T = "IndexDescriptor" ->
         IndexDescriptor_Field(v, buf, ReadVarint(buf, iNdEx))
    [] T = "PrivilegeDescriptor" ->
         PrivilegeDescriptor_Field(v, buf, ReadVarint(buf, iNdEx))
    [] T = "TableDescriptor" ->
         TableDescriptor_Field(v, buf, ReadVarint(buf, iNdEx))
    [] T = "DatabaseDescriptor" ->
         DatabaseDescriptor_Field(v, buf, ReadVarint(buf, iNdEx))

\* n := m.Size()
CallSize(t) ==
  /\ pc[t] = "start"
  /\ ret[t].call = "Size"
  /\ size' = [size EXCEPT ![t] = Size(typ[t], m[t])]
  /\ pc' = [pc EXCEPT ![t] = "done"]
  /\ UNCHANGED <<typ, m, data, err, src, enc, fields, ret>>

\* Marshal: size := m.Size(); data = make([]byte, size)
MarshalSize(t) ==
  /\ pc[t] = "start"
  /\ ret[t].call = "Marshal"
  /\ size' = [size EXCEPT ![t] = Size(typ[t], m[t])]
  /\ pc' = [pc EXCEPT ![t] = "sized"]
  /\ UNCHANGED <<typ, m, data, err, src, enc, fields, ret>>

\* A Marshal that writes through one output buffer shared by all callers.
MarshalWrite_SharedBuffer(t) ==
  /\ pc[t] = "sized"
  /\ LET r == Marshal(typ[t], m[t])
     IN  /\ data' = [u \in Threads |-> r.data]
         /\ err' = [err EXCEPT ![t] = r.err]
  /\ pc' = [pc EXCEPT ![t] = "done"]
  /\ UNCHANGED <<typ, m, src, size, enc, fields, ret>>

\* Marshal: n, err := m.MarshalTo(data); return data[:n], nil
MarshalWrite(t) ==
  /\ pc[t] = "sized"
  /\ LET r == Marshal(typ[t], m[t])
     IN  /\ data' = [data EXCEPT ![t] = r.data]
         /\ err' = [err EXCEPT ![t] = r.err]
  /\ pc' = [pc EXCEPT ![t] = "done"]
  /\ UNCHANGED <<typ, m, src, size, enc, fields, ret>>

\* Unmarshal: the loop test and one iteration of the loop.
UnmarshalField(t) ==
  /\ pc[t] \in {"start", "loop"}
  /\ ret[t].call = "Unmarshal"
  /\ IF ret[t].iNdEx >= Len(data[t])
     THEN /\ pc' = [pc EXCEPT ![t] = "done"]
          /\ UNCHANGED <<m, err, ret>>
     ELSE LET s == Field(typ[t], m[t], data[t], ret[t].iNdEx)
          IN  /\ m' = [m EXCEPT ![t] = s.m]
              /\ err' = [err EXCEPT ![t] = s.err]
              /\ ret' = [ret EXCEPT ![t].iNdEx = s.i]
              /\ pc' = [pc EXCEPT ![t] = IF s.err # ErrNil THEN "done" ELSE "loop"]
  /\ UNCHANGED <<typ, data, src, size, enc, fields>>

NextPar ==
  \E t \in Threads :
    \/ CallSize(t)
    \/ MarshalSize(t)
    \/ MarshalWrite(t)
    \/ UnmarshalField(t)

SpecPar == InitPar /\ [][NextPar]_vars

----------------------------------------------------------------------------
\* Properties of the run from a value (Spec).

\* C1 (round trip): decoding the encoding of a value whose captured-unknown
\* buffer is empty, into a fresh zero value, succeeds and gives back the
\* value, field for field.
RoundTrip ==
  (pc = "decoded" /\ src.XXX_unrecognized = <<>>) => (err = ErrNil /\ m = src)

\* A table with two columns, no secondary index and zero-valued scalars inside
\* was encoded and decoded back.
RoundTripReached ==
  /\ pc = "decoded"
  /\ typ = "TableDescriptor"
  /\ src.XXX_unrecognized = <<>>
  /\ Len(src.Columns) = 2
  /\ src.Indexes = <<>>
  /\ m = src

\* C3 (Size/Marshal agreement): Marshal never fails and returns exactly
\* Size() bytes, on a value and on a decoded value alike.
SizeAgreesWithMarshal ==
  pc \in {"marshalled", "remarshalled"} => (err = ErrNil /\ Len(data) = size)

\* A database with a 128-byte name (a two-byte length prefix) and captured
\* unknown bytes was encoded.
SizeAgreesReached ==
  /\ pc = "marshalled"
  /\ typ = "DatabaseDescriptor"
  /\ Len(src.Name) = 128
  /\ src.XXX_unrecognized # <<>>
  /\ err = ErrNil
  /\ Len(data) = size

\* The top-level fields of a buffer from offset i on, found by skipping field
\* after field: where each one starts and the value of its tag. The walk
\* stops at the first field that cannot be skipped.
RECURSIVE TopLevel(_, _)
TopLevel(buf, i) ==
  IF i >= Len(buf) THEN <<>>
  ELSE LET sk == skipStructured(Slice(buf, i, Len(buf)))
       IN  IF sk.err # ErrNil \/ sk.n.lo = 0 THEN <<>>
           ELSE <<[at |-> i, wire |-> AccU64(ReadVarint(buf, i).g).lo]>>
                  \o TopLevel(buf, i + sk.n.lo)

\* The offsets at which a top-level field of buf starts.
FieldStarts(buf) == {TopLevel(buf, 0)[j].at : j \in DOMAIN TopLevel(buf, 0)}

Rep(x, n) == [j \in 1..n |-> x]

\* The field numbers of a value's known fields, in ascending order, a
\* repeated field once per element.
ExpectedFields(T, v) ==
  CASE T = "ColumnType" -> <<1, 2, 3>>
    [] T = "ColumnDescriptor" -> <<1, 2, 3, 4>>
    [] T = "IndexDescriptor" ->
         <<1, 2, 3>> \o Rep(4, Len(v.ColumnNames)) \o Rep(5, Len(v.ColumnIDs))
    [] T = "PrivilegeDescriptor" -> Rep(1, Len(v.Read)) \o Rep(2, Len(v.Write))
    [] T = "TableDescriptor" ->
         <<1, 2>> \o Rep(3, Len(v.Columns)) \o <<4, 5>>
           \o Rep(6, Len(v.Indexes)) \o <<7, 8>>
    [] T = "DatabaseDescriptor" -> <<1, 2, 3>>

\* The part of an encoding before the captured unknown bytes of its value.
KnownPart(buf, v) == SubSeq(buf, 1, Len(buf) - Len(v.XXX_unrecognized))

\* C9 (canonical output order): the encoding of a value is its known fields
\* in ascending field-number order, every singular field once, a repeated
\* field once per element, and then the captured unknown bytes.
CanonicalOrder ==
  pc = "marshalled" =>
    LET top == TopLevel(KnownPart(data, src), 0)
    IN  /\ [j \in DOMAIN top |-> top[j].wire \div 8] = ExpectedFields(typ, src)
        /\ SubSeq(data, Len(data) - Len(src.XXX_unrecognized) + 1, Len(data))
             = src.XXX_unrecognized

\* An index with two column names, one column id and captured unknown bytes
\* was encoded.
CanonicalOrderReached ==
  /\ pc = "marshalled"
  /\ typ = "IndexDescriptor"
  /\ Len(src.ColumnNames) = 2
  /\ Len(src.ColumnIDs) = 1
  /\ src.XXX_unrecognized # <<>>
  /\ Len(TopLevel(KnownPart(data, src), 0)) = 6

\* The wire type of each field number of each schema (0: varint or bool,
\* 2: string or nested message).
SchemaWireType(T, num) ==
  CASE T = "ColumnType" -> 0
    [] T = "ColumnDescriptor" -> IF num \in {1, 3} THEN 2 ELSE 0
    [] T = "IndexDescriptor" -> IF num \in {1, 4} THEN 2 ELSE 0
    [] T = "PrivilegeDescriptor" -> 2
    [] T = "TableDescriptor" -> IF num \in {1, 3, 5, 6, 8} THEN 2 ELSE 0
    [] T = "DatabaseDescriptor" -> IF num \in {1, 3} THEN 2 ELSE 0

\* C10 (fixed tag values): every tag of a known field in an encoding is
\* (field_number << 3) | wire_type for the field's wire type in the schema,
\* and decoding the encoding puts every field back where it came from.
FixedTags ==
  /\ pc = "marshalled" =>
       LET top == TopLevel(KnownPart(data, src), 0)
           exp == ExpectedFields(typ, src)
       IN  /\ Len(top) = Len(exp)
           /\ \A j \in DOMAIN top :
                /\ top[j].wire = exp[j] * 8 + SchemaWireType(typ, exp[j])
                /\ data[top[j].at + 1] = top[j].wire
  /\ pc = "decoded" => m = src

\* A table without repeated elements was encoded: its tags are 0x0a, 0x10,
\* 0x20, 0x2a, 0x38, 0x42.
FixedTagsReached ==
  /\ pc = "marshalled"
  /\ typ = "TableDescriptor"
  /\ src.Columns = <<>>
  /\ src.Indexes = <<>>
  /\ LET top == TopLevel(KnownPart(data, src), 0)
     IN  [j \in DOMAIN top |-> data[top[j].at + 1]] = <<10, 16, 32, 42, 56, 66>>

----------------------------------------------------------------------------
\* Properties of the run from raw bytes (SpecRaw).

LastField == fields[Len(fields)]

RECURSIVE BytesOf(_)
BytesOf(fs) == IF fs = <<>> THEN <<>> ELSE Head(fs).b \o BytesOf(Tail(fs))

\* The fields of the input whose number is not in the schema, in input order.
UnknownOf(T, fs) == SelectSeq(fs, LAMBDA f : f.num \notin Schema(T))

\* C2 as stated (unknown-field preservation): when an input is accepted, the
\* re-encoding of the decoded value ends with the bytes of the input's
\* unknown-numbered fields, tag and payload, in input order.
UnknownFieldsPreserved ==
  pc = "remarshalledRaw" =>
    LET unk == BytesOf(UnknownOf(typ, fields))
    IN  /\ Len(unk) <= Len(data)
        /\ SubSeq(data, Len(data) - Len(unk) + 1, Len(data)) = unk

\* C5 as stated (malformed length prefix): an input whose last field is a
\* known length-delimited field with a negative or past-the-end length is
\* rejected with an error, and the decode does not fault.
MalformedLengthRejected ==
  (pc = "decodedRaw" /\ fields # <<>>
     /\ LastField.class \in {"neglen", "pastend", "hugelen"})
    => err \notin {ErrNil, Panic}

\* C6 as stated (wire-type checking): an input with a tag of wire type 6 or
\* 7, or with a schema field under another wire type than its own, is
\* rejected.
WireTypeRejected ==
  (pc = "decodedRaw" /\ fields # <<>>
     /\ LastField.class \in {"illegalwt", "wrongwt"})
    => err # ErrNil

Before == SubSeq(data, 1, Len(data) - Len(LastField.b))

Count(fs, n) == Cardinality({j \in DOMAIN fs : fs[j].num = n})

\* C8 as stated (parallel-array integrity): after an accepted
\* IndexDescriptor decode column_names and column_ids are equally long.
ParallelArrays ==
  (pc = "decodedRaw" /\ typ = "IndexDescriptor" /\ err = ErrNil)
    => Len(m.ColumnNames) = Len(m.ColumnIDs)

\* The fields of the input that carry number n, in input order.
Carrying(fs, n) == SelectSeq(fs, LAMBDA f : f.num = n)

\* C8, amended: after an accepted IndexDescriptor decode into a fresh value,
\* column_names has one element per field 4 of the input and column_ids one
\* per field 5, each in input order, so the two are equally long exactly
\* when the input carries the two fields equally often.
ArraysFollowInput ==
  (pc = "decodedRaw" /\ typ = "IndexDescriptor" /\ err = ErrNil)
    => LET names == Carrying(fields, 4)
           ids == Carrying(fields, 5)
       IN  /\ Len(m.ColumnNames) = Count(fields, 4)
           /\ Len(m.ColumnIDs) = Count(fields, 5)
           /\ m.ColumnNames
                = [j \in DOMAIN names |-> SubSeq(names[j].b, 3, Len(names[j].b))]
           /\ m.ColumnIDs = [j \in DOMAIN ids |-> W(ids[j].b[2])]

\* An input of two column ids and no column name was accepted.
ArraysFollowReached ==
  /\ pc = "decodedRaw"
  /\ typ = "IndexDescriptor"
  /\ err = ErrNil
  /\ Count(fields, 5) = 2
  /\ Len(m.ColumnIDs) = 2
  /\ m.ColumnNames = <<>>

\* The scalar fields of each schema (varint, bool, singular string) and its
\* repeated fields, as pairs of field number and field name.
ScalarFields(T) ==
  CASE T = "ColumnType" -> {<<1, "Kind">>, <<2, "Width">>, <<3, "Precision">>}
    [] T = "ColumnDescriptor" -> {<<1, "Name">>, <<2, "ID">>, <<4, "Nullable">>}
    [] T = "IndexDescriptor" -> {<<1, "Name">>, <<2, "ID">>, <<3, "Unique">>}
    [] T = "PrivilegeDescriptor" -> {}
    [] T = "TableDescriptor" ->
         {<<1, "Name">>, <<2, "ID">>, <<4, "NextColumnID">>, <<7, "NextIndexID">>}
    [] T = "DatabaseDescriptor" -> {<<1, "Name">>, <<2, "ID">>}

RepeatedFields(T) ==
  CASE T = "IndexDescriptor" -> {<<4, "ColumnNames">>, <<5, "ColumnIDs">>}
    [] T = "PrivilegeDescriptor" -> {<<1, "Read">>, <<2, "Write">>}
    [] T = "TableDescriptor" -> {<<3, "Columns">>, <<6, "Indexes">>}
    [] OTHER -> {}

\* What a fresh value holds after decoding the one field f alone.
Alone(T, f) == Unmarshal(T, ZeroOf(T), f.b).m

\* C11 (duplicate handling): after an accepted decode of well-formed fields,
\* a scalar field holds the value of its last occurrence in the input, and a
\* repeated field lists its occurrences in input order, whatever fields lie
\* between them.
DuplicateHandling ==
  (/\ pc = "decodedRaw"
   /\ err = ErrNil
   /\ \A j \in DOMAIN fields : fields[j].class = "ok")
    => /\ \A p \in ScalarFields(typ) :
            LET occ == Carrying(fields, p[1])
            IN  occ # <<>> => m[p[2]] = Alone(typ, occ[Len(occ)])[p[2]]
       /\ \A p \in RepeatedFields(typ) :
            LET occ == Carrying(fields, p[1])
            IN  m[p[2]] = ConcatOver([j \in DOMAIN occ |-> Alone(typ, occ[j])[p[2]]])

\* An index input of column name "a", a column id and column name "b" was
\* accepted: the names are listed in input order.
DuplicateHandlingReached ==
  /\ pc = "decodedRaw"
  /\ err = ErrNil
  /\ typ = "IndexDescriptor"
  /\ Len(fields) = 3
  /\ fields[1].num = 4 /\ fields[2].num = 5 /\ fields[3].num = 4
  /\ m.ColumnNames = <<Str_a, Str_b>>
  /\ Len(m.ColumnIDs) = 1

\* The payload of the j-th top-level field of a ColumnType encoding: the
\* bytes between its one-byte tag and the next field.
Payload(buf, top, j) ==
  SubSeq(buf, top[j].at + 2, IF j < Len(top) THEN top[j + 1].at ELSE Len(buf))

\* The varint bytes of the boundary values of a signed 32-bit field when the
\* value is written as its sign-extended 64-bit pattern.
BoundaryVarints ==
  {<<0, <<0>>>>, <<127, <<127>>>>, <<128, <<128, 1>>>>,
   <<2147483647, <<255, 255, 255, 255, 7>>>>,
   <<-1, <<255, 255, 255, 255, 255, 255, 255, 255, 255, 1>>>>}

\* C12 (no zig-zag): in the encoding of a ColumnType each of kind, width and
\* precision is the varint of its sign-extended 64-bit pattern: 0, 127, 128
\* and 2^31 - 1 take 1, 1, 2 and 5 bytes, -1 takes ten (nine 0xff and
\* 0x01), every negative value takes ten, Size counts exactly these bytes,
\* and decoding gives the three values back.
NoZigZag ==
  (typ = "ColumnType" /\ pc \in {"marshalled", "decoded"}) =>
    LET known == KnownPart(enc, src)
        top == TopLevel(known, 0)
        val == <<src.Kind, src.Width, src.Precision>>
    IN  /\ Len(top) = 3
        /\ \A j \in 1..3 :
             /\ \A p \in BoundaryVarints :
                  val[j] = OfInt32(p[1]) => Payload(known, top, j) = p[2]
             /\ IsNeg(val[j]) => Len(Payload(known, top, j)) = 10
        /\ size = 3 + Len(Payload(known, top, 1)) + Len(Payload(known, top, 2))
                    + Len(Payload(known, top, 3)) + Len(src.XXX_unrecognized)
        /\ pc = "decoded" =>
             /\ err = ErrNil
             /\ <<m.Kind, m.Width, m.Precision>> = val

\* A ColumnType of kind -1, width 2^31 - 1 and precision 0 was encoded in
\* 1 + 10 + 1 + 5 + 1 + 1 bytes and decoded back.
NoZigZagReached ==
  /\ pc = "decoded"
  /\ typ = "ColumnType"
  /\ src = CT(-1, 2147483647, 0, <<>>)
  /\ size = 19
  /\ Len(enc) = 19
  /\ m = src

\* The field an accessor reads.
FieldOf(g) ==
  CASE g = "GetKind" -> "Kind" [] g = "GetWidth" -> "Width"
    [] g = "GetPrecision" -> "Precision" [] g = "GetName" -> "Name"
    [] g = "GetID" -> "ID" [] g = "GetType" -> "Type"
    [] g = "GetNullable" -> "Nullable" [] g = "GetUnique" -> "Unique"
    [] g = "GetColumnNames" -> "ColumnNames" [] g = "GetColumnIDs" -> "ColumnIDs"
    [] g = "GetRead" -> "Read" [] g = "GetWrite" -> "Write"
    [] g = "GetColumns" -> "Columns" [] g = "GetNextColumnID" -> "NextColumnID"
    [] g = "GetPrimaryIndex" -> "PrimaryIndex" [] g = "GetIndexes" -> "Indexes"
    [] g = "GetNextIndexID" -> "NextIndexID"

\* The zero value of the field an accessor reads: 0 (the kind BIT included),
\* the empty string, false, the empty sequence, a zero-valued message.
ZeroField(g) ==
  CASE g \in {"GetKind", "GetWidth", "GetPrecision", "GetID", "GetNextColumnID",
              "GetNextIndexID"} -> Zero64
    [] g \in {"GetNullable", "GetUnique"} -> FALSE
    [] g = "GetType" ->
         [Kind |-> Zero64, Width |-> Zero64, Precision |-> Zero64,
          XXX_unrecognized |-> <<>>]
    [] g = "GetPrimaryIndex" ->
         [Name |-> <<>>, ID |-> Zero64, Unique |-> FALSE, ColumnNames |-> <<>>,
          ColumnIDs |-> <<>>, XXX_unrecognized |-> <<>>]
    [] OTHER -> <<>>

\* C13 (total accessors): every accessor returns, on a nil receiver the zero
\* value of its field and on a value the stored field, and leaves the value
\* as it was.
AccessorsTotal ==
  pc = "got" =>
    /\ ret.v = IF ret.absent THEN ZeroField(ret.call) ELSE m[FieldOf(ret.call)]
    /\ m = src

\* GetPrimaryIndex was called on a nil table and returned a zero-valued
\* index.
AccessorsTotalReached ==
  /\ pc = "got"
  /\ typ = "TableDescriptor"
  /\ ret.call = "GetPrimaryIndex"
  /\ ret.absent
  /\ ret.v.Name = <<>>
  /\ ret.v.ColumnIDs = <<>>

\* C14 (open enumeration): ColumnType.Unmarshal accepts any 32-bit signed
\* number as kind, the gap value 6 and numbers outside the named kinds
\* included, and stores the number it was given; Marshal of the decoded
\* value writes the field back with the same bytes.
OpenEnumeration ==
  (/\ typ = "ColumnType"
   /\ pc \in {"decodedRaw", "remarshalledRaw"}
   /\ \A j \in DOMAIN fields : fields[j].class = "ok"
   /\ Carrying(fields, 1) # <<>>)
    => LET occ == Carrying(fields, 1)
           kind == occ[Len(occ)].b
       IN  /\ err = ErrNil
           /\ m.Kind = AccU64(ReadVarint(kind, 1).g)
           /\ pc = "remarshalledRaw" => SubSeq(data, 1, Len(kind)) = kind

\* The kinds 6 and -2^31, which no enumerator names, were decoded and
\* written back.
OpenEnumerationReached ==
  /\ typ = "ColumnType"
  /\ pc = "remarshalledRaw"
  /\ Len(fields) = 2
  /\ fields[1].b = <<8, 6>>
  /\ fields[2].b = <<8, 128, 128, 128, 128, 248, 255, 255, 255, 255, 1>>
  /\ m.Kind = OfInt32(-2147483647 - 1)
  /\ m.Kind \notin {W(k) : k \in KnownKinds}
  /\ data = fields[2].b \o <<16, 0, 24, 0>>

\* A step that is a call of Marshal or of Size leaves the value as it was,
\* and a step that is a call of Unmarshal leaves the buffer as it was.
CallsKeepTheirInput ==
  /\ pc' \in {"marshalled", "again", "remarshalled"} => m' = m
  /\ pc' \in {"decoded", "decodedCut", "decodedExt"} => data' = data

SecondCallAgrees ==
  pc = "again" =>
    /\ m = src
    /\ ret.call = "Marshal" => ret.data = enc /\ ret.err = ErrNil
    /\ ret.call = "Size" => ret.n = size

EndsInVarint == {"cuttag", "cutvarint", "cutlen", "cutnested", "cutgroup"}

\* C18: when the fields before the last one decode and the buffer, or the
\* slice of a nested message, ends inside the last field's tag, varint
\* value or length prefix, every byte of it read having bit 7 set, Unmarshal
\* returns io.ErrUnexpectedEOF; it does not index past the end (which would
\* be a run-time panic).
UnterminatedVarint ==
  (/\ pc = "decodedRaw"
   /\ fields # <<>>
   /\ LastField.class \in EndsInVarint
   /\ Unmarshal(typ, src, Before).err = ErrNil)
    => err = ErrUnexpectedEOF

\* A table input of a name followed by a column whose type ends inside the
\* varint of its kind has been decoded.
UnterminatedVarintReached ==
  /\ pc = "decodedRaw" /\ typ = "TableDescriptor" /\ Len(fields) = 2
  /\ fields[1].num = 1 /\ fields[1].class = "ok"
  /\ LastField.b = <<26, 4, 26, 2, 8, 129>>
  /\ err = ErrUnexpectedEOF

\* The bytes of one field from its first tag byte on, counted by the rule
\* of its wire type (0, 1, 2 or 5), as a word.
FieldBytes(f) ==
  LET tag == ReadVarint(f.b, 0).i
      v == ReadVarint(f.b, tag)
  IN  CASE f.wt = 0 -> W(v.i)
        [] f.wt = 1 -> W(tag + 8)
        [] f.wt = 2 -> AddSmall(AccU64(v.g), v.i)
        [] f.wt = 5 -> W(tag + 4)

\* C19 as stated (skip consumes exactly one field): for a last field of an
\* unknown number and wire type 0, 1, 2 or 5, behind fields that decode,
\* skipStructured returns the count of that field's bytes from its first tag
\* byte on; a complete field is captured, and a field whose count exceeds
\* the bytes that remain makes Unmarshal return io.ErrUnexpectedEOF.
SkipConsumesOneField ==
  (/\ pc = "decodedRaw"
   /\ fields # <<>>
   /\ LastField.class \in {"ok", "short", "overlong"}
   /\ LastField.num \notin Schema(typ)
   /\ LastField.wt \in {0, 1, 2, 5}
   /\ Unmarshal(typ, src, Before).err = ErrNil)
    => LET skip == skipStructured(LastField.b)
       IN  /\ skip.err = ErrNil
           /\ ~IsNeg(skip.n)
           /\ skip.n = FieldBytes(LastField)
           /\ IF LastField.class = "ok"
              THEN /\ skip.n = W(Len(LastField.b))
                   /\ err = ErrNil
                   /\ m = [Unmarshal(typ, src, Before).m EXCEPT
                             !.XXX_unrecognized = @ \o LastField.b]
              ELSE err = ErrUnexpectedEOF

\* C20 as stated (group skipping): for a last field that is a group of an
\* unknown number, behind fields that decode, skipStructured consumes the
\* group, the groups nested in it included, up to and including the
\* end-group tag of the start tag's depth and field number, and the group
\* is captured whole; a group that has no such end tag before the end of
\* the buffer yields an error.
GroupSkipping ==
  (/\ pc = "decodedRaw"
   /\ fields # <<>>
   /\ LastField.wt = 3
   /\ LastField.class \in {"ok", "opengroup", "mismatched", "cutgroup"}
   /\ Unmarshal(typ, src, Before).err = ErrNil)
    => IF LastField.class = "ok"
       THEN /\ skipStructured(LastField.b) =
                 [err |-> ErrNil, n |-> W(Len(LastField.b))]
            /\ err = ErrNil
            /\ m = [Unmarshal(typ, src, Before).m EXCEPT
                      !.XXX_unrecognized = @ \o LastField.b]
       ELSE /\ skipStructured(LastField.b).err \notin {ErrNil, Panic}
            /\ err \notin {ErrNil, Panic}

\* The type of the nested message a field number of T carries.
NestedType(T, num) ==
  CASE T = "ColumnDescriptor" /\ num = 3 -> "ColumnType"
    [] T = "TableDescriptor" /\ num = 3 -> "ColumnDescriptor"
    [] T = "TableDescriptor" /\ num \in {5, 6} -> "IndexDescriptor"
    [] T = "TableDescriptor" /\ num = 8 -> "PrivilegeDescriptor"
    [] T = "DatabaseDescriptor" /\ num = 3 -> "PrivilegeDescriptor"
    [] OTHER -> "none"

\* The nested values a value v of T holds for that field number, in order.
NestedValues(T, v, num) ==
  CASE T = "ColumnDescriptor" /\ num = 3 -> <<v.Type>>
    [] T = "TableDescriptor" /\ num = 3 -> v.Columns
    [] T = "TableDescriptor" /\ num = 5 -> <<v.PrimaryIndex>>
    [] T = "TableDescriptor" /\ num = 6 -> v.Indexes
    [] T = "TableDescriptor" /\ num = 8 -> <<v.PrivilegeDescriptor>>
    [] T = "DatabaseDescriptor" /\ num = 3 -> <<v.PrivilegeDescriptor>>

\* The bytes, tag included, of the top-level fields of buf whose number is
\* not in the schema of T, in the order of buf.
UnknownBytes(T, buf) ==
  LET top == TopLevel(buf, 0)
      EndOf(j) == IF j < Len(top) THEN top[j + 1].at ELSE Len(buf)
  IN  ConcatOver([j \in DOMAIN top |->
        IF (top[j].wire \div 8) \in Schema(T) THEN <<>>
        ELSE SubSeq(buf, top[j].at + 1, EndOf(j))])

\* The payload of a field with a one-byte tag and a one-byte length prefix.
Inner(b) == SubSeq(b, 3, Len(b))

\* The payloads, one after the other, of the top-level fields of buf that
\* carry the tag byte tag.
PayloadsOf(buf, tag) ==
  LET top == TopLevel(buf, 0)
      EndOf(j) == IF j < Len(top) THEN top[j + 1].at ELSE Len(buf)
  IN  ConcatOver([j \in DOMAIN top |->
        IF top[j].wire = tag THEN SubSeq(buf, top[j].at + 3, EndOf(j))
        ELSE <<>>])

IsSuffix(x, y) ==
  Len(x) <= Len(y) /\ SubSeq(y, Len(y) - Len(x) + 1, Len(y)) = x

\* The last nested value decoded from the last field of the input.
LastNested == LET vs == NestedValues(typ, m, LastField.num) IN vs[Len(vs)]

\* C21: when the last field of an input of minimally tagged fields is a
\* nested message, the unknown fields inside it end the nested value's own
\* XXX_unrecognized (for a column, those inside its type end the type's),
\* the enclosing value's XXX_unrecognized holds the unknown fields of the
\* enclosing level only, and Marshal writes the nested value's captured bytes
\* at the end of that nested message's frame, whose length prefix counts
\* them.
PerMessageCapture ==
  (/\ pc \in {"decodedRaw", "remarshalledRaw"}
   /\ err = ErrNil
   /\ fields # <<>>
   /\ \A j \in DOMAIN fields : fields[j].class = "ok"
   /\ NestedType(typ, LastField.num) # "none")
    => LET NT == NestedType(typ, LastField.num)
           nv == LastNested
           bare == Marshal(NT, [nv EXCEPT !.XXX_unrecognized = <<>>]).data
           input == IF pc = "decodedRaw" THEN data ELSE enc
           top == TopLevel(data, 0)
           frames == {j \in DOMAIN top : top[j].wire = 8 * LastField.num + 2}
           last == CHOOSE j \in frames : \A k \in frames : k <= j
           at == top[last].at
       IN  /\ IsSuffix(UnknownBytes(NT, Inner(LastField.b)),
                       nv.XXX_unrecognized)
           /\ m.XXX_unrecognized = UnknownBytes(typ, input)
           /\ NT = "ColumnDescriptor" =>
                IsSuffix(UnknownBytes("ColumnType",
                                      PayloadsOf(Inner(LastField.b), 26)),
                         nv.Type.XXX_unrecognized)
           /\ pc = "remarshalledRaw" =>
                /\ frames # {}
                /\ data[at + 2] = Len(bare) + Len(nv.XXX_unrecognized)
                /\ at + 2 + data[at + 2] <= Len(data)
                /\ SubSeq(data, at + 3, at + 2 + data[at + 2])
                     = bare \o nv.XXX_unrecognized

\* A table input of an unknown field and a column that carries an unknown
\* field was decoded and encoded again.
PerMessageCaptureReached ==
  /\ pc = "remarshalledRaw" /\ typ = "TableDescriptor" /\ Len(fields) = 2
  /\ fields[1].b = Unknown100
  /\ LastField.b = <<26, 5, 16, 1, 152, 6, 5>>
  /\ \A j \in DOMAIN fields : fields[j].class = "ok"
  /\ m.XXX_unrecognized = Unknown100
  /\ m.Columns[1].XXX_unrecognized = Unknown99

\* Varints of a bool field and the value each one stands for: 0, 1, 2, 128,
\* 0 and 1 with padding bytes, 2^64 - 1 and 2^63.
BoolVarints ==
  {<<<<0>>, FALSE>>, <<<<1>>, TRUE>>, <<<<2>>, TRUE>>, <<<<128, 1>>, TRUE>>,
   <<<<128, 0>>, FALSE>>, <<<<128, 128, 0>>, FALSE>>,
   <<<<129, 128, 0>>, TRUE>>, <<Neg1, TRUE>>,
   <<<<128, 128, 128, 128, 128, 128, 128, 128, 128, 1>>, TRUE>>}

\* The bool field of the types that have one: its tag byte.
BoolTag(T) ==
  CASE T = "ColumnDescriptor" -> 32
    [] T = "IndexDescriptor" -> 24
    [] OTHER -> 0

BoolOf(T, v) == IF T = "ColumnDescriptor" THEN v.Nullable ELSE v.Unique

MemorySafe == pc = "decodedRaw" => err # Panic

\* The read position at the start of every iteration of T's Unmarshal loop
\* on buf, from position i and receiver v on, up to the iteration that
\* returns an error or finds the buffer used up.
RECURSIVE Iterations(_, _, _, _)
Iterations(T, v, buf, i) ==
  IF i >= Len(buf) THEN <<i>>
  ELSE LET s == Field(T, v, buf, i)
       IN  IF s.err # ErrNil THEN <<i>>
           ELSE <<i>> \o Iterations(T, s.m, buf, s.i)

\* The value of iNdEx at the start of every pass of skipStructured's group
\* loop on buf, entered behind the group-start tag at position start, and
\* the value the last pass leaves (-1 for any negative one).
RECURSIVE GroupPasses(_, _)
GroupPasses(buf, start) ==
  LET t == ReadVarint(buf, start)
      s == skipStructured(Slice(buf, start, Len(buf)))
      next == AddSmall(s.n, start)
  IN  IF t.eof \/ WireType(AccU64(t.g)) = 4 \/ s.err # ErrNil THEN <<start>>
      ELSE IF IsNeg(next) THEN <<start, -1>>
      ELSE IF ~LtSmall(next, Len(buf)) THEN <<start, Len(buf)>>
      ELSE <<start>> \o GroupPasses(buf, next.lo)

Increasing(ps) == \A j \in 1..(Len(ps) - 1) : ps[j] < ps[j + 1]

UnmarshalAdvances ==
  pc = "decodedRaw" =>
    LET ps == Iterations(typ, src, data, 0)
    IN  Increasing(ps) /\ Len(ps) - 1 <= Len(data)

GroupLoopAdvances ==
  (pc = "decodedRaw" /\ fields # <<>> /\ LastField.wt = 3
     /\ LastField.num \notin Schema(typ))
    => Increasing(GroupPasses(LastField.b, 2))

\* C24 as stated (decode terminates): every iteration of the Unmarshal loop
\* that returns no error leaves the read position above where it started,
\* so there are at most len(data) iterations, and every pass of the group
\* loop of skipStructured leaves iNdEx above where the pass started.
DecodeTerminates == UnmarshalAdvances /\ GroupLoopAdvances

\* C25 as stated (rewind to tag start): when the last field of an input has
\* an unknown number and the fields before it decode, the position the
\* default branch hands to skipStructured, the position behind the tag less
\* sizeOfWire, is the offset of the field's first tag byte, whether or not
\* the tag varint is minimal, and what is appended to XXX_unrecognized is
\* the whole field from its first tag byte on.
RewindToTagStart ==
  (/\ pc = "decodedRaw"
   /\ fields # <<>>
   /\ LastField.class \in {"ok", "nonminimal"}
   /\ LastField.num \notin Schema(typ)
   /\ Unmarshal(typ, src, Before).err = ErrNil)
    => LET tag == ReadVarint(data, Len(Before))
       IN  /\ tag.i - sovStructured(AccU64(tag.g)) = Len(Before)
           /\ err = ErrNil
           /\ m.XXX_unrecognized =
                Unmarshal(typ, src, Before).m.XXX_unrecognized \o LastField.b

\* The field numbers of T that carry a non-repeated nested message.
SingularNested(T) ==
  CASE T = "ColumnDescriptor" -> {3}
    [] T = "TableDescriptor" -> {5, 8}
    [] T = "DatabaseDescriptor" -> {3}
    [] OTHER -> {}

\* The payloads of the fields of fs numbered n, one after the other.
PayloadsIn(fs, n) ==
  ConcatOver([j \in DOMAIN fs |-> IF fs[j].num = n THEN Inner(fs[j].b) ELSE <<>>])

\* C26: in an accepted input of minimally tagged fields, the value of each
\* non-repeated nested message is what one Unmarshal of a fresh message of
\* its type gives on the payloads of all the field's occurrences, one after
\* the other: scalars of the last occurrence that has them, repeated fields
\* and captured unknown bytes of all occurrences.
SingularNestedMerge ==
  (/\ pc = "decodedRaw"
   /\ err = ErrNil
   /\ \A j \in DOMAIN fields : fields[j].class = "ok")
    => \A n \in SingularNested(typ) :
         LET NT == NestedType(typ, n)
             whole == Unmarshal(NT, ZeroOf(NT), PayloadsIn(fields, n))
         IN  /\ whole.err = ErrNil
             /\ NestedValues(typ, m, n)[1] = whole.m

\* A table input with the primary index given twice, once with a column
\* name and a column id and once with an id and an unknown field, and then
\* the privileges, was decoded.
SingularNestedMergeReached ==
  /\ pc = "decodedRaw" /\ err = ErrNil /\ typ = "TableDescriptor"
  /\ Len(fields) = 3
  /\ fields[1].b = <<42, 5, 34, 1, 97, 40, 1>>
  /\ fields[2].b = <<42, 5, 16, 1, 152, 6, 5>>
  /\ fields[3].num = 8
  /\ m.PrimaryIndex.ColumnNames = <<Str_a>>
  /\ m.PrimaryIndex.ID = W(1)
  /\ m.PrimaryIndex.XXX_unrecognized = Unknown99

\* C27: when a second buffer that decodes without error on its own is
\* decoded into the receiver of an accepted first buffer, the call returns
\* nil and leaves the receiver equal to a fresh value after one Unmarshal of
\* the first buffer followed by the second; with an empty second buffer the
\* receiver stays as the first call left it.
ComposesOverConcatenation ==
  (pc = "decodedTwice" /\ Unmarshal(typ, ZeroOf(typ), data).err = ErrNil)
    => /\ err = ErrNil
       /\ Unmarshal(typ, ZeroOf(typ), enc \o data) = [err |-> ErrNil, m |-> m]
       /\ data = <<>> => m = Unmarshal(typ, ZeroOf(typ), enc).m

\* An index that holds a name, an id and a column name from a first buffer
\* got a second column name from a second buffer.
ComposesOverConcatenationReached ==
  /\ pc = "decodedTwice" /\ err = ErrNil /\ typ = "IndexDescriptor"
  /\ enc = <<34, 1, 97>> /\ data = <<34, 1, 98>>
  /\ m.ColumnNames = <<Str_a, Str_b>>

\* C28 as stated (re-encoding is idempotent): the encoding c of the value
\* decoded from an accepted input is itself accepted by Unmarshal into a
\* fresh value, and the encoding of that value is c again.
ReencodingIdempotent ==
  pc = "remarshalledRaw" =>
    LET again == Unmarshal(typ, ZeroOf(typ), data)
    IN  /\ again.err = ErrNil
        /\ Marshal(typ, again.m).data = data

\* Varints that do not fit a 32-bit field and the int32 their low 32 bits
\* are: 2^32 + 5, 2^31, 2^35, 2^70 + 1 (11 bytes), 2^77 - 1 (11 bytes).
NarrowedVarints ==
  {<<<<133, 128, 128, 128, 16>>, 5>>,
   <<<<128, 128, 128, 128, 8>>, -2147483647 - 1>>,
   <<<<128, 128, 128, 128, 128, 1>>, 0>>,
   <<<<129, 128, 128, 128, 128, 128, 128, 128, 128, 128, 1>>, 1>>,
   <<<<255, 255, 255, 255, 255, 255, 255, 255, 255, 255, 127>>, -1>>}

\* The 32-bit field of a ColumnType that a one-byte tag names.
Int32Of(v, tag) ==
  CASE tag = 8 -> v.Kind [] tag = 16 -> v.Width [] tag = 24 -> v.Precision

\* C29: when the last field of a ColumnType input is kind, width or
\* precision with a varint whose value does not fit 32 bits or that is 11
\* bytes long, behind fields that decode, Unmarshal returns nil, the field
\* holds the low 32 bits of the varint as a signed number, which is not the
\* number on the wire (its encoding is not the varint read), and the other
\* fields stay as decoded before.
NarrowingOfWideVarints ==
  (/\ pc = "decodedRaw"
   /\ typ = "ColumnType"
   /\ fields # <<>>
   /\ LastField.class = "narrowed"
   /\ Unmarshal(typ, src, Before).err = ErrNil)
    => LET tag == LastField.b[1]
           was == Unmarshal(typ, src, Before).m
       IN  /\ err = ErrNil
           /\ \E p \in NarrowedVarints :
                /\ Tail(LastField.b) = p[1]
                /\ Int32Of(m, tag) = OfInt32(p[2])
           /\ encodeVarintStructured(Int32Of(m, tag)) # Tail(LastField.b)
           /\ \A t \in {8, 16, 24} \ {tag} : Int32Of(m, t) = Int32Of(was, t)
           /\ m.XXX_unrecognized = was.XXX_unrecognized

\* A ColumnType input of kind 6 and the width varint 2^31 was decoded to the
\* width -2^31.
NarrowingReached ==
  /\ pc = "decodedRaw" /\ typ = "ColumnType" /\ err = ErrNil
  /\ Len(fields) = 2 /\ fields[1].b = <<8, 6>>
  /\ LastField.b = <<16, 128, 128, 128, 128, 8>>
  /\ m.Kind = W(6) /\ IsNeg(m.Width)

\* C30: when the last field of an input has the tag of field number
\* 2^32 + 2 and wire type 0, behind fields that decode, Unmarshal returns
\* nil, appends the field's bytes to XXX_unrecognized and leaves every known
\* field as it was: the field is not decoded as field 2.
FullFieldNumberDispatch ==
  (/\ pc = "decodedRaw"
   /\ fields # <<>>
   /\ LastField.class = "wide"
   /\ Unmarshal(typ, src, Before).err = ErrNil)
    => LET was == Unmarshal(typ, src, Before).m
       IN  /\ err = ErrNil
           /\ m = [was EXCEPT !.XXX_unrecognized = @ \o LastField.b]

----------------------------------------------------------------------------
\* Properties of concurrent calls (SpecPar).

\* What thread t owns: its value, its buffer and the locals of its call.
Own(t) == <<typ[t], m[t], data[t], err[t], pc[t], size[t], ret[t]>>

\* What the call of thread t returns, and the state it leaves its value and
\* its buffer in, when it runs alone on the value src[t] and buffer enc[t].
Alone_Call(t) ==
  CASE ret[t].call = "Size" ->
         [m |-> src[t], data |-> enc[t], err |-> ErrNil,
          size |-> Size(typ[t], src[t])]
    [] ret[t].call = "Marshal" ->
         [m |-> src[t], data |-> Marshal(typ[t], src[t]).data,
          err |-> Marshal(typ[t], src[t]).err,
          size |-> Size(typ[t], src[t])]
    [] ret[t].call = "Unmarshal" ->
         [m |-> Unmarshal(typ[t], src[t], enc[t]).m, data |-> enc[t],
          err |-> Unmarshal(typ[t], src[t], enc[t]).err, size |-> 0]

ResultsAsIfAlone ==
  \A t \in Threads :
    pc[t] = "done" =>
      [m |-> m[t], data |-> data[t], err |-> err[t], size |-> size[t]]
        = Alone_Call(t)

OneThreadPerStep ==
  \E t \in Threads : \A u \in Threads \ {t} : Own(u)' = Own(u)

----------------------------------------------------------------------------
\* Properties of one varint (SpecVarint).

\* The k-th 7-bit group of a word, k = 1 for bits 0..6, k = 10 for bit 63.
Group(w, k) ==
  CASE k = 1 -> w.lo % 128
    [] k = 2 -> (w.lo \div 128) % 128
    [] k = 3 -> (w.lo \div 16384) % 128
    [] k = 4 -> w.lo \div 2097152
    [] k = 5 -> w.mid % 128
    [] k = 6 -> (w.mid \div 128) % 128
    [] k = 7 -> (w.mid \div 16384) % 128
    [] k = 8 -> w.mid \div 2097152
    [] k = 9 -> w.hi % 128
    [] OTHER -> w.hi \div 128

\* The bytes written for the varint.
Written == SubSeq(data, ret.offset + 1, ret.offset + size)

\* C17: encodeVarintStructured writes exactly sovStructured(x) bytes,
\* between 1 and 10, and returns the offset after them; byte k holds the
\* k-th 7-bit group of x counted from the least-significant one, with bit 7
\* set on every byte but the last; the bytes around them stay as they were;
\* and the decode loop started on them returns x and stops right after them.
VarintLayout ==
  /\ pc \in {"written", "read"} =>
       /\ size \in 1..10
       /\ ret.call = "encodeVarintStructured" => ret.i = ret.offset + size
       /\ \A k \in 1..size :
            Written[k] = Group(src, k) + (IF k < size THEN 128 ELSE 0)
       /\ \A k \in DOMAIN data :
            (k <= ret.offset \/ k > ret.offset + size) => data[k] = enc[k]
  /\ pc = "read" => m = src /\ err = ErrNil /\ ret.i = ret.offset + size

\* 2^63 has been written as ten bytes, the last of them 1, between bytes
\* that have bit 7 set, and read back.
VarintLayoutReached ==
  /\ pc = "read" /\ src = [lo |-> 0, mid |-> 0, hi |-> 128]
  /\ size = 10 /\ Written[10] = 1 /\ Written[1] = 128
  /\ ret.offset = 2 /\ data[1] = 255 /\ data[Len(data)] = 255
  /\ m = src

====
